---- MODULE Spec2Model ----
(***************************************************************************)
(* Retrieval-and-classification core of costudy-api:                       *)
(*   - the chunk classifier (src/server.js and the two backfill scripts),  *)
(*   - the retrieval coordinator retrieveContext with its compatibility    *)
(*     fallback and noise filter,                                          *)
(*   - the context assembler buildContextBlock,                            *)
(*   - the three batch classification runners.                             *)
(* Text is modelled as a string of characters; regular        *)
(* expressions are modelled as syntax trees interpreted by Ends.           *)
(***************************************************************************)
EXTENDS Integers, Sequences, FiniteSets, TLC

VARIABLES
  \* ---- classifier harness
  content,      \* the text handed to classifyChunk (NULL when absent)
  cres,         \* the three classifiers' results for content
  cpc,          \* "start" | "done"; "calls" while calls are made in succession
  lastIndex,    \* lastIndex of every RegExp object the script shares between calls
  calls,        \* the calls of classifyChunk made so far: content and results
  \* ---- a helper applied to one JavaScript value
  value,        \* [type, text, num]: the value handed over as content
  vOut,         \* [op, kind |-> "none" | "return" | "throw", noisy, class]
  vpc,          \* "start" | "done"
  \* ---- retrieveContext
  rArgs,        \* the arguments of the call
  rCalls,       \* payloads of the supabase.rpc calls made so far, in order
  rData, rError,\* the locals data and error
  rResps,       \* what the store answered to each call, in order
  rOut,         \* [kind |-> "none" | "return" | "throw", val |-> ...]
  rpc,          \* position in retrieveContext
  rStore,       \* "any" | "new" | "old": what is known of match_documents
  \* ---- buildContextBlock
  hits, maxChars,
  out,          \* the local out
  hidx,         \* the index of the hit the loop is at
  bResult,      \* the text returned
  bpc,          \* "loop" | "return" | "done"
  \* ---- batch runners
  impl,         \* "admin" | "part000" | "script"
  store,        \* id -> [content, chunk_type, question_no]
  store0,       \* the store before the first run
  storeRun1,    \* the store after the first run
  dryRun, cap, batchSize,
  offset, totalProcessed, stats,
  chunks,       \* the page fetched last
  cidx,         \* position in the page (classification loop and update loop)
  updates,      \* the updates array of the paginated runners
  writes,       \* the update calls issued: [id, chunk_type, question_no, ok]
  fetches,      \* the length of every page fetched by the current run
  processed,    \* ids classified by the current run, in order
  parked,       \* the locals of the concurrent runs that are between two steps
  run,          \* 1 or 2: the run in progress
  runsWanted,   \* how many runs are made in succession
  failId,       \* the id whose update the store rejects (0: none)
  faults,       \* whether a fetch may fail
  jpc,          \* position in the runner
  \* ---- POST /api/search
  req,          \* req.body: the JavaScript value of every field
  embedCalls,   \* the inputs handed to openai.embeddings.create, in order
  embedResps,   \* what the provider answered to each call, in order
  qResp,        \* the response sent: [status, error, details, hits]
  qpc           \* "idle" | "start" | "embedding" | "retrieving" | "done"

clsVars   == <<content, cres, cpc, lastIndex, calls>>
retrVars  == <<rArgs, rCalls, rResps, rData, rError, rOut, rpc, rStore>>
asmVars   == <<hits, maxChars, out, hidx, bResult, bpc>>
batchVars == <<impl, store, store0, storeRun1, dryRun, cap, batchSize, offset,
               totalProcessed, stats, chunks, cidx, updates, writes, fetches,
               processed, run, runsWanted, failId, faults, parked, jpc>>
valVars   == <<value, vOut, vpc>>
reqVars   == <<req, embedCalls, embedResps, qResp, qpc>>
vars      == <<clsVars, valVars, retrVars, asmVars, batchVars, reqVars>>

\* JavaScript null / undefined (never a text of the model)
NULL == "<null>"

(***************************************************************************)
(* Characters and JavaScript string helpers.  A text is a string; Ch(s, i) *)
(* is its i-th character, 1-based.                                         *)
(***************************************************************************)
Ch(s, i)    == SubSeq(s, i, i)
CharsOf(w)  == {Ch(w, i) : i \in 1..Len(w)}

LowerAlphabet == "abcdefghijklmnopqrstuvwxyz"
UpperAlphabet == "ABCDEFGHIJKLMNOPQRSTUVWXYZ"
LowerLetters  == CharsOf(LowerAlphabet)
UpperLetters  == CharsOf(UpperAlphabet)
Digits        == CharsOf("0123456789")
NL            == "\n"
TAB           == "\t"
WhiteSpace    == {" ", NL, TAB}
WordChars     == LowerLetters \cup UpperLetters \cup Digits \cup {"_"}

\* stands for U+212A KELVIN SIGN, which a text of the model cannot spell:
\* not an ASCII character, and toLowerCase maps it to the ASCII letter k
KELVIN        == "§"

LowerOf == [x \in UpperLetters |->
  Ch(LowerAlphabet, CHOOSE i \in 1..26 : Ch(UpperAlphabet, i) = x)]

\* String.prototype.toLowerCase, one character
ToLowerChar(ch) ==
  IF ch \in UpperLetters THEN LowerOf[ch]
  ELSE IF ch = KELVIN THEN "k"
  ELSE ch

\* String.prototype.toLowerCase (by halves, to keep the recursion shallow)
RECURSIVE ToLowerCase(_)
ToLowerCase(s) ==
  IF Len(s) = 0 THEN ""
  ELSE IF Len(s) = 1 THEN ToLowerChar(s)
  ELSE LET h == Len(s) \div 2
       IN  ToLowerCase(SubSeq(s, 1, h)) \o ToLowerCase(SubSeq(s, h + 1, Len(s)))

Max(S) == CHOOSE x \in S : \A y \in S : y <= x
Min(S) == CHOOSE x \in S : \A y \in S : x <= y

(***************************************************************************)
(* Regular expressions.  A position p in 0..Len(s) stands between s[p] and *)
(* s[p+1].  Ends(r, s, P, ci) is the set of positions at which a match of  *)
(* r can end when it starts at a position of P; ci is the i flag.          *)
(***************************************************************************)
Chr(cs)   == [t |-> "chr", cs |-> cs]          \* one character of cs
Dot       == [t |-> "any"]                     \* .   (not a line terminator)
Cat(rs)   == [t |-> "cat", rs |-> rs]          \* r1 r2 ...
Alt(rs)   == [t |-> "alt", rs |-> rs]          \* r1 | r2 | ...
Star(r)   == [t |-> "star", r |-> r]           \* r*
Plus(r)   == Cat(<<r, Star(r)>>)               \* r+
Opt(r)    == Alt(<<r, Cat(<<>>)>>)             \* r?
WB        == [t |-> "wb"]                      \* \b
BOS       == [t |-> "bos"]                     \* ^ without the m flag
BOL       == [t |-> "bol"]                     \* ^ with the m flag
Lit(w)    == Cat([i \in 1..Len(w) |-> Chr({Ch(w, i)})])   \* a literal text
Words(ws) == Alt([i \in 1..Len(ws) |-> Lit(ws[i])])   \* (w1|w2|...)
S0        == Star(Chr(WhiteSpace))             \* \s*
D1        == Plus(Chr(Digits))                 \* \d+

IsWordAt(s, p) == p >= 1 /\ p <= Len(s) /\ Ch(s, p) \in WordChars

ChrOk(cs, ch, ci) ==
  ch \in cs \/ (ci /\ \E x \in cs : ToLowerChar(x) = ToLowerChar(ch))

RECURSIVE Ends(_, _, _, _)
RECURSIVE EndsCat(_, _, _, _, _)
RECURSIVE EndsStar(_, _, _, _)

Ends(r, s, P, ci) ==
  CASE r.t = "chr"  -> {p + 1 : p \in {q \in P : q < Len(s) /\ ChrOk(r.cs, Ch(s, q + 1), ci)}}
    [] r.t = "any"  -> {p + 1 : p \in {q \in P : q < Len(s) /\ Ch(s, q + 1) # NL}}
    [] r.t = "cat"  -> EndsCat(r.rs, 1, s, P, ci)
    [] r.t = "alt"  -> UNION {Ends(r.rs[k], s, P, ci) : k \in 1..Len(r.rs)}
    [] r.t = "star" -> EndsStar(r.r, s, P, ci)
    [] r.t = "wb"   -> {p \in P : IsWordAt(s, p) # IsWordAt(s, p + 1)}
    [] r.t = "bos"  -> {p \in P : p = 0}
    [] r.t = "bol"  -> {p \in P : p = 0 \/ Ch(s, p) = NL}

EndsCat(rs, k, s, P, ci) ==
  IF k > Len(rs) \/ P = {} THEN P
  ELSE EndsCat(rs, k + 1, s, Ends(rs[k], s, P, ci), ci)

EndsStar(r, s, P, ci) ==
  LET Q == P \cup Ends(r, s, P, ci)
  IN  IF Q = P THEN P ELSE EndsStar(r, s, Q, ci)

\* RegExp.prototype.test / a successful String.prototype.match
Test(r, s, ci) == Ends(r, s, 0..Len(s), ci) # {}

\* String.prototype.includes with a literal
Includes(s, w) == Test(Lit(w), s, FALSE)

\* the number of matches of s.match(/r/g): leftmost, non overlapping
RECURSIVE CountFrom(_, _, _, _)
CountFrom(r, s, from, ci) ==
  LET starts == {i \in from..Len(s) : Ends(r, s, {i}, ci) # {}}
  IN  IF starts = {} THEN 0
      ELSE LET i == Min(starts)
               e == Max(Ends(r, s, {i}, ci))
           IN  1 + CountFrom(r, s, IF e > i THEN e ELSE i + 1, ci)

MatchCount(r, s, ci) == CountFrom(r, s, 0, ci)

\* s.match(/pre(cap)post/)[1], or NULL: the leftmost match; the quantifiers
\* are greedy, so the longest prefix and then the longest capture that let
\* the rest match are the ones taken.
Capture(pre, grp, post, s, ci) ==
  LET full   == Cat(<<pre, grp, post>>)
      starts == {i \in 0..Len(s) : Ends(full, s, {i}, ci) # {}}
  IN  IF starts = {} THEN NULL
      ELSE LET i  == Min(starts)
               ps == {p \in Ends(pre, s, {i}, ci) :
                        Ends(Cat(<<grp, post>>), s, {p}, ci) # {}}
               p  == Max(ps)
               cs == {c \in Ends(grp, s, {p}, ci) : Ends(post, s, {c}, ci) # {}}
           IN  SubSeq(s, p + 1, Max(cs))

(***************************************************************************)
(* Chunk classifier of src/server.js (the one of src/unnamed/part_000 is   *)
(* the same text, line for line).                                          *)
(***************************************************************************)
ABCD == Chr(CharsOf("abcd"))

\* /\b[a-d]\s*[.)]\s*\w/i
RE_choiceItem == Cat(<<WB, ABCD, S0, Chr({".", ")"}), S0, Chr(WordChars)>>)
\* /\b(option|choice)\s*[a-d]/i
RE_optionWord == Cat(<<WB, Words(<<"option", "choice">>), S0, ABCD>>)
\* /\b(which|what|how|when|where|who|why|calculate|determine|identify|select)\b/i
RE_questionWord ==
  Cat(<<WB, Words(<<"which", "what", "how", "when", "where", "who", "why",
                    "calculate", "determine", "identify", "select">>), WB>>)
\* /\b[A-D]\s*[.)]/g
RE_optionLabel == Cat(<<WB, Chr(CharsOf("ABCD")), S0, Chr({".", ")"})>>)

hasChoices(c0) ==
  Test(RE_choiceItem, c0, TRUE) \/ Test(RE_optionWord, ToLowerCase(c0), TRUE)
hasQuestion(c0) ==
  Includes(c0, "?") \/ Test(RE_questionWord, ToLowerCase(c0), TRUE)
hasMultipleOptions(c0) == MatchCount(RE_optionLabel, c0, FALSE) >= 3

\* either signal taken as enough
isMCQQuestionEither(c0) == hasChoices(c0) \/ hasMultipleOptions(c0) \/ hasQuestion(c0)

isMCQQuestion(c0) == (hasChoices(c0) \/ hasMultipleOptions(c0)) /\ hasQuestion(c0)

\* /\b(correct\s*(answer|choice|option)|answer\s*(is|:)|rationale|explanation\s*for)/i
RE_answerIndicator ==
  Cat(<<WB, Alt(<<Cat(<<Lit("correct"), S0, Words(<<"answer", "choice", "option">>)>>),
                  Cat(<<Lit("answer"), S0, Words(<<"is", ":">>)>>),
                  Lit("rationale"),
                  Cat(<<Lit("explanation"), S0, Lit("for")>>)>>)>>)
\* /\b(choice|option)\s*[a-d]\s*(is|was|would be)\s*(correct|incorrect|wrong)/i
RE_choiceExplanation ==
  Cat(<<WB, Words(<<"choice", "option">>), S0, ABCD, S0,
        Words(<<"is", "was", "would be">>), S0,
        Words(<<"correct", "incorrect", "wrong">>)>>)
\* /\b(the answer is|correct response|right answer)\b/i
RE_answerPattern ==
  Cat(<<WB, Words(<<"the answer is", "correct response", "right answer">>), WB>>)

isMCQAnswer(c0) ==
  LET c == ToLowerCase(c0)
  IN  \/ Test(RE_answerIndicator, c, TRUE)
      \/ Test(RE_choiceExplanation, c, TRUE)
      \/ Test(RE_answerPattern, c, TRUE)

\* /\b(discuss|explain in detail|describe|analyze|evaluate|compare and contrast|essay|written response)\b/i
RE_essayKeyword ==
  Cat(<<WB, Words(<<"discuss", "explain in detail", "describe", "analyze",
                    "evaluate", "compare and contrast", "essay",
                    "written response">>), WB>>)
\* /\n\n/g
RE_blankLine == Lit("\n\n")

LongFormLen == 500

\* the long form taken from 500 characters on
isEssayFromLength(c0) ==
  LET hasEssayKeywords == Test(RE_essayKeyword, ToLowerCase(c0), TRUE)
      isLongForm    == Len(c0) >= LongFormLen /\ ~isMCQQuestion(c0) /\ ~isMCQAnswer(c0)
      hasParagraphs == MatchCount(RE_blankLine, c0, FALSE) >= 2
  IN  hasEssayKeywords \/ (isLongForm /\ hasParagraphs)

isEssay(c0) ==
  LET hasEssayKeywords == Test(RE_essayKeyword, ToLowerCase(c0), TRUE)
      isLongForm    == Len(c0) > LongFormLen /\ ~isMCQQuestion(c0) /\ ~isMCQAnswer(c0)
      hasParagraphs == MatchCount(RE_blankLine, c0, FALSE) >= 2
  IN  hasEssayKeywords \/ (isLongForm /\ hasParagraphs)

\* the five patterns of extractQuestionNo, each as <<before, group, after, i flag>>
QuestionNoPatterns ==
  << \* /\bQ\.?\s*(\d+)/i
     <<Cat(<<WB, Lit("Q"), Opt(Lit(".")), S0>>), D1, Cat(<<>>), TRUE>>,
     \* /\bQuestion\s*#?\s*(\d+)/i
     <<Cat(<<WB, Lit("Question"), S0, Opt(Lit("#")), S0>>), D1, Cat(<<>>), TRUE>>,
     \* /^\s*(\d+)\s*[.)]/m
     <<Cat(<<BOL, S0>>), D1, Cat(<<S0, Chr({".", ")"})>>), FALSE>>,
     \* /\bID:\s*\w+\s*(\d+\.\d+)/i
     <<Cat(<<WB, Lit("ID:"), S0, Plus(Chr(WordChars)), S0>>),
       Cat(<<D1, Lit("."), D1>>), Cat(<<>>), TRUE>>,
     \* /\b(\d+\.\d+)\s*\(/
     <<WB, Cat(<<D1, Lit("."), D1>>), Cat(<<S0, Lit("(")>>), FALSE>> >>

RECURSIVE FirstCapture(_, _, _)
FirstCapture(patterns, k, c0) ==
  IF k > Len(patterns) THEN NULL
  ELSE LET pt == patterns[k]
           m  == Capture(pt[1], pt[2], pt[3], c0, pt[4])
       IN  IF m # NULL THEN m ELSE FirstCapture(patterns, k + 1, c0)

\* the patterns tried from the last to the first
extractQuestionNoLastFirst(c0) ==
  FirstCapture([k \in 1..Len(QuestionNoPatterns) |->
                  QuestionNoPatterns[Len(QuestionNoPatterns) + 1 - k]], 1, c0)

extractQuestionNo(c0) == FirstCapture(QuestionNoPatterns, 1, c0)

MinContentLen == 10

\* the detectors tried in the order answer, question, essay
classifyChunkAnswerFirst(c0) ==
  IF c0 = NULL \/ c0 = "" \/ Len(c0) < MinContentLen
  THEN [chunk_type |-> "other", question_no |-> NULL]
  ELSE [chunk_type |-> IF isMCQAnswer(c0) THEN "mcq_answer"
                       ELSE IF isMCQQuestion(c0) THEN "mcq_question"
                       ELSE IF isEssay(c0) THEN "essay"
                       ELSE "other",
        question_no |-> extractQuestionNo(c0)]

\* the guard taken as content.length <= 10
classifyChunkGuardInclusive(c0) ==
  IF c0 = NULL \/ c0 = "" \/ Len(c0) <= MinContentLen
  THEN [chunk_type |-> "other", question_no |-> NULL]
  ELSE [chunk_type |-> IF isMCQQuestion(c0) THEN "mcq_question"
                       ELSE IF isMCQAnswer(c0) THEN "mcq_answer"
                       ELSE IF isEssay(c0) THEN "essay"
                       ELSE "other",
        question_no |-> extractQuestionNo(c0)]

classifyChunk(c0) ==
  IF c0 = NULL \/ c0 = "" \/ Len(c0) < MinContentLen
  THEN [chunk_type |-> "other", question_no |-> NULL]
  ELSE [chunk_type |-> IF isMCQQuestion(c0) THEN "mcq_question"
                       ELSE IF isMCQAnswer(c0) THEN "mcq_answer"
                       ELSE IF isEssay(c0) THEN "essay"
                       ELSE "other",
        question_no |-> extractQuestionNo(c0)]

(***************************************************************************)
(* Chunk classifier of src/scripts/classify-chunks.js                      *)
(***************************************************************************)
\* (?:Q\.?|Question\s*)?
RE_qPrefix == Opt(Alt(<<Cat(<<Lit("Q"), Opt(Lit("."))>>), Cat(<<Lit("Question"), S0>>)>>))
WS1        == Plus(Chr(WhiteSpace))                     \* \s+

MCQ_QUESTION_PATTERNS ==
  << \* /^(?:Q\.?|Question\s*)?\d+[.\):]\s*[A-Z]/i
     <<Cat(<<BOS, RE_qPrefix, D1, Chr({".", ")", ":"}), S0, Chr(UpperLetters)>>), TRUE>>,
     \* /^(?:Q\.?|Question\s*)?#?\d+[.\s]+(?:Which|What|How|Why|When|Where)/i
     <<Cat(<<BOS, RE_qPrefix, Opt(Lit("#")), D1, Plus(Chr({"."} \cup WhiteSpace)),
             Words(<<"Which", "What", "How", "Why", "When", "Where">>)>>), TRUE>>,
     \* /^\d+\.\s+.+\?/
     <<Cat(<<BOS, D1, Lit("."), WS1, Plus(Dot), Lit("?")>>), FALSE>>,
     \* /^(?:MCQ|Multiple Choice)\s*#?\d+/i
     <<Cat(<<BOS, Words(<<"MCQ", "Multiple Choice">>), S0, Opt(Lit("#")), D1>>), TRUE>> >>

MCQ_ANSWER_PATTERNS ==
  << \* /^\s*[A-D][.\)]\s+\w/
     <<Cat(<<BOS, S0, Chr(CharsOf("ABCD")), Chr({".", ")"}), WS1, Chr(WordChars)>>), FALSE>>,
     \* /(?:correct\s*)?answer[:\s]*[A-D]/i
     <<Cat(<<Opt(Cat(<<Lit("correct"), S0>>)), Lit("answer"),
             Star(Chr({":"} \cup WhiteSpace)), Chr(CharsOf("ABCD"))>>), TRUE>>,
     \* /^(?:Option\s*)?[A-D][:\s]/i
     <<Cat(<<BOS, Opt(Cat(<<Lit("Option"), S0>>)), Chr(CharsOf("ABCD")),
             Chr({":"} \cup WhiteSpace)>>), TRUE>>,
     \* /solution[:\s]/i
     <<Cat(<<Lit("solution"), Chr({":"} \cup WhiteSpace)>>), TRUE>>,
     \* /^(?:Explanation|Rationale)[:\s]/i
     <<Cat(<<BOS, Words(<<"Explanation", "Rationale">>), Chr({":"} \cup WhiteSpace)>>), TRUE>> >>

ESSAY_PATTERNS ==
  << \* /essay\s*(?:question|response|answer)/i
     <<Cat(<<Lit("essay"), S0, Words(<<"question", "response", "answer">>)>>), TRUE>>,
     \* /^(?:Essay|Written Response|Short Answer)\s*#?\d*/i
     <<Cat(<<BOS, Words(<<"Essay", "Written Response", "Short Answer">>), S0,
             Opt(Lit("#")), Star(Chr(Digits))>>), TRUE>>,
     \* /in\s+\d+[-\s]*\d*\s*words/i
     <<Cat(<<Lit("in"), WS1, D1, Star(Chr({"-"} \cup WhiteSpace)), Star(Chr(Digits)),
             S0, Lit("words")>>), TRUE>>,
     \* /discuss\s+(?:in detail|briefly)/i
     <<Cat(<<Lit("discuss"), WS1, Words(<<"in detail", "briefly">>)>>), TRUE>>,
     \* /explain\s+(?:the\s+)?(?:concept|process|importance)/i
     <<Cat(<<Lit("explain"), WS1, Opt(Cat(<<Lit("the"), WS1>>)),
             Words(<<"concept", "process", "importance">>)>>), TRUE>> >>

\* for (const pattern of PATTERNS) if (pattern.test(text)) ...
AnyPattern(patterns, text) ==
  \E k \in 1..Len(patterns) : Test(patterns[k][1], text, patterns[k][2])

\* String.prototype.trim
Trim(s) ==
  LET kept == {i \in 1..Len(s) : Ch(s, i) \notin WhiteSpace}
  IN  IF kept = {} THEN "" ELSE SubSeq(s, Min(kept), Max(kept))

scriptClassifyChunk(c0) ==
  LET text == IF c0 = NULL THEN "" ELSE Trim(c0)
  IN  IF text = "" \/ Len(text) < MinContentLen
      THEN [chunk_type |-> "other", question_no |-> NULL]
      ELSE IF AnyPattern(MCQ_QUESTION_PATTERNS, text)
      THEN [chunk_type |-> "mcq_question",
            \* text.match(/^(?:Q\.?|Question\s*)?#?(\d+)/i)
            question_no |-> Capture(Cat(<<BOS, RE_qPrefix, Opt(Lit("#"))>>), D1,
                                    Cat(<<>>), text, TRUE)]
      ELSE IF AnyPattern(MCQ_ANSWER_PATTERNS, text)
      THEN [chunk_type |-> "mcq_answer",
            \* text.match(/(?:question|Q)\s*#?(\d+)/i)
            question_no |-> Capture(Cat(<<Words(<<"question", "Q">>), S0, Opt(Lit("#"))>>),
                                    D1, Cat(<<>>), text, TRUE)]
      ELSE IF AnyPattern(ESSAY_PATTERNS, text)
      THEN [chunk_type |-> "essay", question_no |-> NULL]
      ELSE [chunk_type |-> "other", question_no |-> NULL]

\* The pattern lists are module-level arrays: their RegExp objects live as
\* long as the process and are shared by all the calls of classifyChunk.
PatternsOf(list) ==
  CASE list = "question" -> MCQ_QUESTION_PATTERNS
    [] list = "answer"   -> MCQ_ANSWER_PATTERNS
    [] list = "essay"    -> ESSAY_PATTERNS

PatternIds ==
  {<<list, k>> : list \in {"question"}, k \in 1..Len(MCQ_QUESTION_PATTERNS)}
  \cup {<<list, k>> : list \in {"answer"}, k \in 1..Len(MCQ_ANSWER_PATTERNS)}
  \cup {<<list, k>> : list \in {"essay"}, k \in 1..Len(ESSAY_PATTERNS)}

\* lastIndex of the RegExp objects when the module is loaded
ZeroIndex == [id \in PatternIds |-> 0]

\* every pattern given the g flag
HasGlobalFlagAlways(pt) == TRUE

\* whether a pattern of the lists has the g (or y) flag: the flags are i or none
HasGlobalFlag(pt) == FALSE

\* RegExp.prototype.test on a RegExp object whose lastIndex is li: the
\* outcome and the lastIndex left.  Without the g flag the search starts at
\* 0 and lastIndex is not written; with it the search starts at lastIndex,
\* which is then set to the end of the match, or to 0 when there is none.
RegExpTest(pt, text, li) ==
  IF ~HasGlobalFlag(pt)
  THEN [found |-> Test(pt[1], text, pt[2]), li |-> li]
  ELSE LET starts == {i \in li..Len(text) : Ends(pt[1], text, {i}, pt[2]) # {}}
       IN  IF starts = {}
           THEN [found |-> FALSE, li |-> 0]
           ELSE [found |-> TRUE, li |-> Max(Ends(pt[1], text, {Min(starts)}, pt[2]))]

\* for (const pattern of LIST) if (pattern.test(text)) ..., from the k-th
\* pattern on: whether one matched, and the lastIndex values left
RECURSIVE TestEach(_, _, _, _)
TestEach(list, k, text, li) ==
  IF k > Len(PatternsOf(list)) THEN [hit |-> FALSE, li |-> li]
  ELSE LET r   == RegExpTest(PatternsOf(list)[k], text, li[<<list, k>>])
           li2 == [li EXCEPT ![<<list, k>>] = r.li]
       IN  IF r.found THEN [hit |-> TRUE, li |-> li2]
           ELSE TestEach(list, k + 1, text, li2)

\* one call of classifyChunk of the script with the RegExp objects as the
\* earlier calls left them: its result and the lastIndex values it leaves
scriptClassifyCall(c0, li) ==
  LET text == IF c0 = NULL THEN "" ELSE Trim(c0)
      q    == TestEach("question", 1, text, li)
      a    == TestEach("answer", 1, text, q.li)
      es   == TestEach("essay", 1, text, a.li)
  IN  IF text = "" \/ Len(text) < MinContentLen
      THEN [result |-> [chunk_type |-> "other", question_no |-> NULL], lastIndex |-> li]
      ELSE IF q.hit
      THEN [result |-> [chunk_type |-> "mcq_question",
                        question_no |-> Capture(Cat(<<BOS, RE_qPrefix, Opt(Lit("#"))>>), D1,
                                                Cat(<<>>), text, TRUE)],
            lastIndex |-> q.li]
      ELSE IF a.hit
      THEN [result |-> [chunk_type |-> "mcq_answer",
                        question_no |-> Capture(Cat(<<Words(<<"question", "Q">>), S0,
                                                      Opt(Lit("#"))>>),
                                                D1, Cat(<<>>), text, TRUE)],
            lastIndex |-> a.li]
      ELSE IF es.hit
      THEN [result |-> [chunk_type |-> "essay", question_no |-> NULL], lastIndex |-> es.li]
      ELSE [result |-> [chunk_type |-> "other", question_no |-> NULL], lastIndex |-> es.li]

(***************************************************************************)
(* Helpers of src/server.js                                                *)
(***************************************************************************)
\* stands for U+0000, which is kept out of the module text
NUL          == "^"
\* [\u0001-\u001F\u007F], the members a TLA+ string can spell
ControlChars == {TAB, NL, "\r", "\f"}
\* [^\x00-\x7F], the members used by the texts of the model
NonAscii     == CharsOf("éü") \cup {KELVIN}

\* s.replace(/[from]/g, to) for a set of characters (by halves)
RECURSIVE ReplaceChars(_, _, _)
ReplaceChars(s, from, to) ==
  IF Len(s) = 0 THEN ""
  ELSE IF Len(s) = 1 THEN (IF s \in from THEN to ELSE s)
  ELSE LET h == Len(s) \div 2
       IN  ReplaceChars(SubSeq(s, 1, h), from, to)
           \o ReplaceChars(SubSeq(s, h + 1, Len(s)), from, to)

\* s.replace(/[ \t]+/g, " "): of every run of blanks one space is left.
\* BlanksFrom(s, lo, hi) is the replacement of s[lo..hi] within s.
RECURSIVE BlanksFrom(_, _, _)
BlanksFrom(s, lo, hi) ==
  IF lo > hi THEN ""
  ELSE IF lo = hi
       THEN IF Ch(s, lo) \notin {" ", TAB} THEN Ch(s, lo)
            ELSE IF lo > 1 /\ Ch(s, lo - 1) \in {" ", TAB} THEN "" ELSE " "
  ELSE LET h == (lo + hi) \div 2
       IN  BlanksFrom(s, lo, h) \o BlanksFrom(s, h + 1, hi)

CollapseBlanks(s) == BlanksFrom(s, 1, Len(s))

\* the replacements made in another order: blanks collapsed before the
\* control characters are turned into spaces
sanitizeTextCollapseFirst(s) ==
  LET s0 == IF s = NULL THEN "" ELSE s
      s1 == ReplaceChars(s0, {NUL}, "")
      s2 == CollapseBlanks(s1)
      s3 == ReplaceChars(s2, ControlChars, " ")
  IN  Trim(s3)

sanitizeText(s) ==
  LET s0 == IF s = NULL THEN "" ELSE s
      s1 == ReplaceChars(s0, {NUL}, "")
      s2 == ReplaceChars(s1, ControlChars, " ")
      s3 == CollapseBlanks(s2)
  IN  Trim(s3)

\* the number of characters of s that are in cs: s.match(/[cs]/g)?.length || 0
CountChars(s, cs) == Cardinality({i \in 1..Len(s) : Ch(s, i) \in cs})

MinLetters  == 20
MaxNonLatin == 80

\* the filter with the markers looked up in the content as it is written
isNoisyChunkCaseSensitive(c0) ==
  LET c == IF c0 = NULL THEN "" ELSE c0
  IN  IF c = "" THEN TRUE
      ELSE IF Includes(c, "t.me/") THEN TRUE
      ELSE IF Includes(c, "telegram.me") THEN TRUE
      ELSE IF Includes(c, "whatsapp") THEN TRUE
      ELSE LET letters  == CountChars(c, LowerLetters)
               nonLatin == CountChars(c, NonAscii)
           IN  letters < MinLetters /\ nonLatin > MaxNonLatin

isNoisyChunk(c0) ==
  LET c == IF c0 = NULL THEN "" ELSE ToLowerCase(c0)
  IN  IF c = "" THEN TRUE
      ELSE IF Includes(c, "t.me/") THEN TRUE
      ELSE IF Includes(c, "telegram.me") THEN TRUE
      ELSE IF Includes(c, "whatsapp") THEN TRUE
      ELSE LET letters  == CountChars(c, LowerLetters)
               nonLatin == CountChars(c, NonAscii)
           IN  letters < MinLetters /\ nonLatin > MaxNonLatin

(***************************************************************************)
(* retrieveContext (src/server.js).  The vector store is external: each    *)
(* call is answered by an error with some message or by some rows.         *)
(***************************************************************************)
MaxRows == 2

Embeddings == {"e1", "e2"}
TopKs      == {1, 5}
Thresholds == {50, 75}                 \* hundredths
DocFilters == {NULL, "", "doc-a"}
TypeFilters == {NULL, "mcq_question"}

\* error.message values; NULL is an error object without a message
Messages ==
  {NULL, "", "connection timeout",
   "Could not find the function match_documents(filter_chunk_type)",
   "function match_documents(vector) does not exist"}

\* the content column of a row: missing, empty, blank, carrying a marker
\* in some letter case, or plain text
RowContents ==
  {NULL, "", "  \n", "join t.me/xyz now", "Ask on WhatsApp", "see TELEGRAM.ME/abc",
   "Depreciation reduces income."}
SecondContents == {"join t.me/xyz now", "Depreciation reduces income."}
\* the rows of the store: chunk 1 is a question and a close match,
\* chunk 2 is neither
RowType(i) == IF i = 1 THEN "mcq_question" ELSE "other"
RowSimilarity(i) == IF i = 1 THEN 95 ELSE 60      \* hundredths
RowDocument(i) == IF i = 1 THEN "doc-a" ELSE "doc-b"
Row(i, c) == [id |-> i, document_id |-> RowDocument(i), chunk_type |-> RowType(i),
              similarity |-> RowSimilarity(i), content |-> c]
Rows == {Row(1, c) : c \in RowContents} \cup {Row(2, c) : c \in SecondContents}

SeqsUpTo(S, n) == UNION {[1..k -> S] : k \in 0..n}

NoError  == [isNull |-> TRUE, message |-> NULL]
NoData   == [isNull |-> TRUE, rows |-> <<>>]
Err(m)   == [isNull |-> FALSE, message |-> m]
Data(rs) == [isNull |-> FALSE, rows |-> rs]

\* every { data, error } the store client can resolve to
Responses ==
  {[data |-> NoData, error |-> Err(m)] : m \in Messages}
  \cup {[data |-> Data(rs), error |-> NoError] : rs \in SeqsUpTo(Rows, MaxRows)}
  \cup {[data |-> NoData, error |-> NoError]}

\* filterDoc || null
OrNull(v) == IF v = NULL \/ v = "" THEN NULL ELSE v

FirstPayload(a) ==
  [query_embedding    |-> a.queryEmbedding,
   match_threshold    |-> a.threshold,
   match_count        |-> a.topK,
   filter_document_id |-> OrNull(a.filterDoc),
   filter_chunk_type  |-> OrNull(a.filterChunkType)]

\* the fallback call made with the filters still in the payload
FallbackPayloadWithFilters(a) ==
  [query_embedding    |-> a.queryEmbedding,
   match_threshold    |-> a.threshold,
   match_count        |-> a.topK,
   filter_document_id |-> OrNull(a.filterDoc),
   filter_chunk_type  |-> OrNull(a.filterChunkType)]

FallbackPayload(a) ==
  [query_embedding |-> a.queryEmbedding,
   match_threshold |-> a.threshold,
   match_count     |-> a.topK]

\* msg.includes("filter_") || msg.includes("does not exist"),
\* msg = String(error.message || "")
IsSchemaMismatch(e) ==
  LET msg == IF e.message = NULL THEN "" ELSE e.message
  IN  Includes(msg, "filter_") \/ Includes(msg, "does not exist")

\* a filter that hands the surviving rows back last row first
RECURSIVE FilterNoisyReversed(_)
FilterNoisyReversed(rs) ==
  IF rs = <<>> THEN <<>>
  ELSE FilterNoisyReversed(Tail(rs))
       \o (IF isNoisyChunk(Head(rs).content) THEN <<>> ELSE <<Head(rs)>>)

\* (data || []).filter((r) => !isNoisyChunk(r.content))
RECURSIVE FilterNoisy(_)
FilterNoisy(rs) ==
  IF rs = <<>> THEN <<>>
  ELSE (IF isNoisyChunk(Head(rs).content) THEN <<>> ELSE <<Head(rs)>>)
       \o FilterNoisy(Tail(rs))

\* The function match_documents of the database.
\*   "new": as the migration creates it, with the two filter parameters;
\*   "old": as it was before the migration, without them: a call that names
\*          them finds no such function;
\*   "any": nothing is assumed of the answers.
HasFilterParams(p) == "filter_chunk_type" \in DOMAIN p

\* WHERE similarity > match_threshold
\*   AND (filter_document_id IS NULL OR ds.document_id = filter_document_id)
\*   AND (filter_chunk_type IS NULL OR ds.chunk_type = filter_chunk_type)
Selected(r, p) ==
  /\ r.similarity > p.match_threshold
  /\ HasFilterParams(p) =>
       /\ p.filter_document_id = NULL \/ r.document_id = p.filter_document_id
       /\ p.filter_chunk_type = NULL \/ r.chunk_type = p.filter_chunk_type

\* ORDER BY distance LIMIT match_count
Returnable(rs, p) ==
  /\ Len(rs) <= p.match_count
  /\ \A i \in DOMAIN rs : Selected(rs[i], p)
  /\ \A i \in DOMAIN rs : \A j \in DOMAIN rs :
       i < j => rs[i].similarity >= rs[j].similarity

\* every { data, error } supabase.rpc("match_documents", p) can resolve to
Answers(p) ==
  IF rStore = "any" THEN Responses
  ELSE {resp \in Responses :
          IF resp.error.isNull
          THEN /\ ~resp.data.isNull
               /\ ~(rStore = "old" /\ HasFilterParams(p))
               /\ Returnable(resp.data.rows, p)
          ELSE TRUE}

NoOut == [kind |-> "none", rows |-> <<>>, error |-> NoError]

RetrInitWith(stores) ==
  /\ rStore \in stores
  /\ rArgs \in [queryEmbedding : Embeddings, topK : TopKs, threshold : Thresholds,
                filterDoc : DocFilters, filterChunkType : TypeFilters]
  /\ rCalls = <<>>
  /\ rResps = <<>>
  /\ rData = NoData
  /\ rError = NoError
  /\ rOut = NoOut
  /\ rpc = "start"

RetrInit == RetrInitWith({"any"})

\* ({ data, error } = await supabase.rpc("match_documents", payload));
RetrieveFirstCall ==
  /\ rpc = "start"
  /\ \E resp \in Answers(FirstPayload(rArgs)) :
       /\ rCalls' = Append(rCalls, FirstPayload(rArgs))
       /\ rResps' = Append(rResps, resp)
       /\ rData' = resp.data
       /\ rError' = resp.error
  /\ rpc' = "afterFirst"
  /\ UNCHANGED <<rArgs, rOut, rStore>>
  /\ UNCHANGED <<clsVars, valVars, asmVars, batchVars, reqVars>>

\* the fallback call made after any error, whatever its message
RetrieveFallbackOnAnyError ==
  /\ rpc = "afterFirst"
  /\ ~rError.isNull
  /\ \E resp \in Responses :
       /\ rCalls' = Append(rCalls, [query_embedding |-> rArgs.queryEmbedding,
                                    match_threshold |-> rArgs.threshold,
                                    match_count     |-> rArgs.topK])
       /\ rResps' = Append(rResps, resp)
       /\ rData' = resp.data
       /\ rError' = resp.error
  /\ rpc' = "afterFallback"
  /\ UNCHANGED <<rArgs, rOut, rStore>>
  /\ UNCHANGED <<clsVars, valVars, asmVars, batchVars, reqVars>>

\* if (error) { if (msg.includes(...)) ({ data, error } = await supabase.rpc(...)) }
RetrieveFallback ==
  /\ rpc = "afterFirst"
  /\ ~rError.isNull
  /\ IsSchemaMismatch(rError)
  /\ \E resp \in Answers(FallbackPayload(rArgs)) :
       /\ rCalls' = Append(rCalls, FallbackPayload(rArgs))
       /\ rResps' = Append(rResps, resp)
       /\ rData' = resp.data
       /\ rError' = resp.error
  /\ rpc' = "afterFallback"
  /\ UNCHANGED <<rArgs, rOut, rStore>>
  /\ UNCHANGED <<clsVars, valVars, asmVars, batchVars, reqVars>>

\* if (error) throw error; return cleaned;
RetrieveFinish ==
  /\ rpc \in {"afterFirst", "afterFallback"}
  /\ rpc = "afterFirst" => (rError.isNull \/ ~IsSchemaMismatch(rError))
  /\ rOut' = IF ~rError.isNull
             THEN [kind |-> "throw", rows |-> <<>>, error |-> rError]
             ELSE [kind |-> "return", rows |-> FilterNoisy(rData.rows), error |-> NoError]
  /\ rpc' = "done"
  /\ UNCHANGED <<rArgs, rCalls, rResps, rData, rError, rStore>>
  /\ UNCHANGED <<clsVars, valVars, asmVars, batchVars, reqVars>>

RetrNext == RetrieveFirstCall \/ RetrieveFallback \/ RetrieveFinish

(***************************************************************************)
(* buildContextBlock (src/server.js)                                       *)
(***************************************************************************)
MaxHits == 3
MaxBudget == 125

\* `${n}` for a non-negative integer n
RECURSIVE IntToStr(_)
IntToStr(n) ==
  IF n < 10 THEN Ch("0123456789", n + 1)
  ELSE IntToStr(n \div 10) \o Ch("0123456789", (n % 10) + 1)

\* the hits handed to buildContextBlock
AsmHits ==
  {[document_id |-> "d", page_number |-> 1,  chunk_index |-> 0, content |-> "abcd"],
   [document_id |-> "d", page_number |-> 12, chunk_index |-> 0, content |-> "abcd"],
   [document_id |-> "d", page_number |-> 1,  chunk_index |-> 0, content |-> " a \t b\n"],
   [document_id |-> "d", page_number |-> 1,  chunk_index |-> 0, content |-> NULL]}

\* the template literal of the loop body
Piece(h) ==
  "SOURCE: " \o h.document_id \o " | page:" \o IntToStr(h.page_number)
  \o " | chunk:" \o IntToStr(h.chunk_index) \o "\n"
  \o sanitizeText(h.content) \o "\n\n---\n\n"

\* the test made on the text packed so far, without the piece to append
OverflowsBeforeAppend(o, piece, budget) == Len(o) > budget

\* the test made with >= : a piece that fills the budget exactly is refused
OverflowsAtEqual(o, piece, budget) == Len(o) + Len(piece) >= budget

\* if (out.length + piece.length > maxChars) break;
Overflows(o, piece, budget) == Len(o) + Len(piece) > budget

AsmInit ==
  /\ hits \in SeqsUpTo(AsmHits, MaxHits)
  /\ maxChars \in 0..MaxBudget
  /\ out = ""
  /\ hidx = 1
  /\ bResult = NULL
  /\ bpc = "loop"

\* one iteration of for (const h of hits): append the piece, or break
AssembleStep ==
  /\ bpc = "loop"
  /\ hidx <= Len(hits)
  /\ LET piece == Piece(hits[hidx])
     IN  IF Overflows(out, piece, maxChars)
         THEN /\ bpc' = "return"
              /\ UNCHANGED <<out, hidx>>
         ELSE /\ out' = out \o piece
              /\ hidx' = hidx + 1
              /\ bpc' = "loop"
  /\ UNCHANGED <<hits, maxChars, bResult>>
  /\ UNCHANGED <<clsVars, valVars, retrVars, batchVars, reqVars>>

\* the loop ran out of hits
AssembleExhausted ==
  /\ bpc = "loop"
  /\ hidx > Len(hits)
  /\ bpc' = "return"
  /\ UNCHANGED <<hits, maxChars, out, hidx, bResult>>
  /\ UNCHANGED <<clsVars, valVars, retrVars, batchVars, reqVars>>

\* return out.trim();
AssembleReturn ==
  /\ bpc = "return"
  /\ bResult' = Trim(out)
  /\ bpc' = "done"
  /\ UNCHANGED <<hits, maxChars, out, hidx>>
  /\ UNCHANGED <<clsVars, valVars, retrVars, batchVars, reqVars>>

AsmNext == AssembleStep \/ AssembleExhausted \/ AssembleReturn

(***************************************************************************)
(* Classifier harness: one content, classified by each implementation      *)
(***************************************************************************)
MaxTokens == 3

ClsTokens ==
  {"which A. x ", "answer: C ", "describe ", "Q7 ", "\n3) ", "zzzzzzzzzz",
   "B) yes ", "why so "}

\* every concatenation of at most n tokens
RECURSIVE TokenTexts(_)
TokenTexts(n) ==
  IF n = 0 THEN {""}
  ELSE LET shorter == TokenTexts(n - 1)
       IN  shorter \cup {t \o w : t \in shorter, w \in ClsTokens}

\* w repeated n times (by halves)
RECURSIVE Repeat(_, _)
Repeat(w, n) ==
  IF n = 0 THEN ""
  ELSE IF n = 1 THEN w
  ELSE Repeat(w, n \div 2) \o Repeat(w, n - n \div 2)

\* a text of n characters, n >= 204, with two blank lines in it
TwoBreaks(n) ==
  Repeat("z", 100) \o "\n\n" \o Repeat("z", 100) \o "\n\n" \o Repeat("z", n - 204)

\* a text of n characters, n >= 102, with one blank line in it
OneBreak(n) == Repeat("z", 100) \o "\n\n" \o Repeat("z", n - 102)

\* contents around the length guard, long contents around the long-form
\* length, and contents for each pattern of extractQuestionNo
ClsExtras ==
  {"asdf", "Q1. A) x?", "Q1. A) x??", "describe",
   TwoBreaks(LongFormLen), TwoBreaks(LongFormLen + 1),
   OneBreak(LongFormLen + 1), Repeat("z", LongFormLen + 1),
   "answer: C " \o TwoBreaks(LongFormLen + 1),
   "which A. x " \o TwoBreaks(LongFormLen + 1),
   "describe " \o TwoBreaks(LongFormLen + 1),
   "A.) B.) C.) ok?", "A.) B.) C.) ok.", "A.) B.) ok? zzz", "what of option b", "take option b now",
   "see Question #12 zz", "ID: CMA 12.34 zz", "rate 3.14 (a) zz",
   "ID: CMA 12.34 Q007", "5.2 (b) ID: x 1.5", "see 3.3 (a) ID: x 1.5", "007) Question 5 q.9"}

ClsContents == TokenTexts(MaxTokens) \cup ClsExtras \cup {NULL}

NoClass == [chunk_type |-> NULL, question_no |-> NULL]

ClsInit ==
  /\ content \in ClsContents
  /\ cres = [server |-> NoClass, script |-> NoClass]
  /\ cpc = "start"
  /\ lastIndex = ZeroIndex
  /\ calls = <<>>

\* classifyChunk(content) of src/server.js and of scripts/classify-chunks.js
Classify ==
  /\ cpc = "start"
  /\ cres' = [server |-> classifyChunk(content), script |-> scriptClassifyChunk(content)]
  /\ cpc' = "done"
  /\ UNCHANGED <<content, lastIndex, calls>>
  /\ UNCHANGED <<valVars, retrVars, asmVars, batchVars, reqVars>>

ClsNext == Classify

\* calls of classifyChunk made one after the other in one process
MaxCalls == 3

CallContents ==
  {NULL, "1. What is par value? A. x B. y", "answer: C zzzzzzz", "Q7 zzzzzzzzz",
   "essay question: discuss", "solution: see Q3"}

CallsInit ==
  /\ content = NULL
  /\ cres = [server |-> NoClass, script |-> NoClass]
  /\ cpc = "calls"
  /\ lastIndex = ZeroIndex
  /\ calls = <<>>

\* one more call, on any content: classifyChunk(content) of src/server.js,
\* whose RegExp literals are evaluated anew in each call, and of
\* scripts/classify-chunks.js, which tests its shared pattern lists
ClassifyCall ==
  /\ cpc = "calls"
  /\ Len(calls) < MaxCalls
  /\ \E c0 \in CallContents :
       LET r == scriptClassifyCall(c0, lastIndex)
       IN  /\ content' = c0
           /\ cres' = [server |-> classifyChunk(c0), script |-> r.result]
           /\ lastIndex' = r.lastIndex
           /\ calls' = Append(calls, [content |-> c0, server |-> classifyChunk(c0),
                                      script |-> r.result])
  /\ UNCHANGED cpc
  /\ UNCHANGED <<valVars, retrVars, asmVars, batchVars, reqVars>>

CallsNext == ClassifyCall

(***************************************************************************)
(* Specifications: one per component; the other components stay idle.      *)
(***************************************************************************)
(***************************************************************************)
(* classifyChunk and isNoisyChunk applied to a JavaScript value of any     *)
(* type.  A value is [type, text, num]: text is the string of a string,    *)
(* num the number of a number and the length of an array.                  *)
(***************************************************************************)
MaxSpread == 2

JSNull      == [type |-> "null",      text |-> "", num |-> 0]
JSUndefined == [type |-> "undefined", text |-> "", num |-> 0]
JSObject    == [type |-> "object",    text |-> "", num |-> 0]
JSString(t) == [type |-> "string",    text |-> t,  num |-> 0]
JSNumber(n) == [type |-> "number",    text |-> "", num |-> n]
JSArray(n)  == [type |-> "array",     text |-> "", num |-> n]

\* a text of l ASCII letters `letter`, k Kelvin signs, n accented letters
\* and p digits
NoiseText(letter, l, k, n, p) ==
  Repeat(letter, l) \o Repeat(KELVIN, k) \o Repeat("é", n) \o Repeat("7", p)

Around(m) == {0} \cup ((m - MaxSpread)..(m + MaxSpread))

NoiseTexts ==
  {NoiseText(letter, l, k, n, p) :
     letter \in {"a", "A"}, l \in Around(MinLetters), k \in {0, 1},
     n \in Around(MaxNonLatin), p \in {0, 1}}

ValueTexts == NoiseTexts \cup {"", "asdf", "join t.me/xyz now", "Q1. A) x??"}

JSValues ==
  {JSNull, JSUndefined, JSObject, JSNumber(0), JSNumber(12345),
   JSArray(0), JSArray(MinContentLen - 1), JSArray(MinContentLen)}
  \cup {JSString(t) : t \in ValueTexts}

\* ToBoolean(v)
Truthy(v) ==
  CASE v.type \in {"null", "undefined"} -> FALSE
    [] v.type = "string" -> v.text # ""
    [] v.type = "number" -> v.num # 0
    [] OTHER -> TRUE

\* v has a property `length` that is a number
HasLength(v) == v.type \in {"string", "array"}
LengthOf(v)  == IF v.type = "string" THEN Len(v.text) ELSE v.num

NoOutcome ==
  [op |-> "none", kind |-> "none", noisy |-> FALSE, class |-> NoClass, text |-> ""]
Threw(op) ==
  [op |-> op, kind |-> "throw", noisy |-> FALSE, class |-> NoClass, text |-> ""]
Noisy(b) ==
  [op |-> "isNoisyChunk", kind |-> "return", noisy |-> b, class |-> NoClass, text |-> ""]
Class(op, r) ==
  [op |-> op, kind |-> "return", noisy |-> FALSE, class |-> r, text |-> ""]
Text(op, t) ==
  [op |-> op, kind |-> "return", noisy |-> FALSE, class |-> NoClass, text |-> t]

OtherClass == [chunk_type |-> "other", question_no |-> NULL]

\* isNoisyChunk(v): (content || "").toLowerCase() is a TypeError when the
\* value is truthy and not a string
isNoisyChunkValue(v) ==
  IF ~Truthy(v) THEN Noisy(isNoisyChunk(""))
  ELSE IF v.type # "string" THEN Threw("isNoisyChunk")
  ELSE Noisy(isNoisyChunk(v.text))

\* classifyChunk(v) of src/server.js: `undefined < 10` is false, so a truthy
\* value without a length goes on to content.toLowerCase()
classifyChunkValue(v) ==
  IF ~Truthy(v) THEN Class("classifyChunk", OtherClass)
  ELSE IF HasLength(v) /\ LengthOf(v) < MinContentLen THEN Class("classifyChunk", OtherClass)
  ELSE IF v.type # "string" THEN Threw("classifyChunk")
  ELSE Class("classifyChunk", classifyChunk(v.text))

\* classifyChunk(v) of the script: (content || "").trim() comes first
scriptClassifyChunkValue(v) ==
  IF ~Truthy(v) THEN Class("scriptClassifyChunk", scriptClassifyChunk(""))
  ELSE IF v.type # "string" THEN Threw("scriptClassifyChunk")
  ELSE Class("scriptClassifyChunk", scriptClassifyChunk(v.text))

ValInit ==
  /\ value \in JSValues
  /\ vOut = NoOutcome
  /\ vpc = "start"

ValIdle ==
  /\ value = JSNull
  /\ vOut = NoOutcome
  /\ vpc = "idle"

ValueNoise ==
  /\ vpc = "start"
  /\ vOut' = isNoisyChunkValue(value)
  /\ vpc' = "done"
  /\ UNCHANGED <<value, clsVars, retrVars, asmVars, batchVars, reqVars>>

ValueClassify ==
  /\ vpc = "start"
  /\ vOut' = classifyChunkValue(value)
  /\ vpc' = "done"
  /\ UNCHANGED <<value, clsVars, retrVars, asmVars, batchVars, reqVars>>

ValueClassifyScript ==
  /\ vpc = "start"
  /\ vOut' = scriptClassifyChunkValue(value)
  /\ vpc' = "done"
  /\ UNCHANGED <<value, clsVars, retrVars, asmVars, batchVars, reqVars>>

ValNext == ValueNoise \/ ValueClassify \/ ValueClassifyScript

(***************************************************************************)
(* sanitizeText and its callers embedOne and buildContextBlock, applied to *)
(* one value                                                               *)
(***************************************************************************)
MaxSanLen == 5
MaxEmbedChars == 8000

SanAlphabet == {"a", " ", TAB, NL, NUL}

\* every text of up to n characters of the alphabet
RECURSIVE SanTextsOf(_)
SanTextsOf(n) ==
  IF n = 0 THEN {""}
  ELSE LET shorter == SanTextsOf(n - 1)
       IN  shorter \cup {t \o c : t \in {u \in shorter : Len(u) = n - 1}, c \in SanAlphabet}

\* texts longer than the cap of embedOne, before and after sanitizeText
LongTexts ==
  {Repeat("ab\t", 2667) \o "  x", Repeat("a", MaxEmbedChars - 1) \o " \n b"}

SanValues ==
  {JSNull, JSUndefined, JSNumber(0)}
  \cup {JSString(t) : t \in SanTextsOf(MaxSanLen) \cup LongTexts}

\* s || "" for a string, null, undefined or 0
OrEmpty(v) == IF Truthy(v) THEN v.text ELSE ""

\* s.slice(0, n)
SliceTo(s, n) == IF Len(s) <= n THEN s ELSE SubSeq(s, 1, n)

\* const clean = sanitizeText(text).slice(0, 8000)
EmbedInput(text) == SliceTo(sanitizeText(text), MaxEmbedChars)

\* the hit of which v is the content
HitOf(v) ==
  [document_id |-> "d", page_number |-> 1, chunk_index |-> 0,
   content |-> IF v.type = "string" THEN v.text ELSE NULL]

SanInit ==
  /\ value \in SanValues
  /\ vOut = NoOutcome
  /\ vpc = "start"

\* sanitizeText(s)
Sanitize ==
  /\ vpc = "start"
  /\ vOut' = Text("sanitizeText", sanitizeText(OrEmpty(value)))
  /\ vpc' = "once"
  /\ UNCHANGED <<value, clsVars, retrVars, asmVars, batchVars, reqVars>>

\* sanitizeText applied to what sanitizeText returned
SanitizeAgain ==
  /\ vpc = "once"
  /\ vOut' = Text("sanitizeText", sanitizeText(vOut.text))
  /\ vpc' = "twice"
  /\ UNCHANGED <<value, clsVars, retrVars, asmVars, batchVars, reqVars>>

\* embedOne(text): the input handed to openai.embeddings.create
EmbedClean ==
  /\ vpc = "start"
  /\ vOut' = Text("embedOne", EmbedInput(OrEmpty(value)))
  /\ vpc' = "done"
  /\ UNCHANGED <<value, clsVars, retrVars, asmVars, batchVars, reqVars>>

\* buildContextBlock: the piece of one hit
RenderPiece ==
  /\ vpc = "start"
  /\ vOut' = Text("buildContextBlock", Piece(HitOf(value)))
  /\ vpc' = "done"
  /\ UNCHANGED <<value, clsVars, retrVars, asmVars, batchVars, reqVars>>

SanNext == Sanitize \/ SanitizeAgain \/ EmbedClean \/ RenderPiece

(***************************************************************************)
(* POST /api/search (src/server.js): the validation, embedOne,             *)
(* retrieveContext and the response.  The embedding provider is external:  *)
(* a call is answered by an embedding or fails with some message.          *)
(***************************************************************************)
DEFAULT_TOPK == 10
DEFAULT_MATCH_THRESHOLD == 75            \* hundredths

\* a body with a query and nothing else
PlainBody ==
  [query |-> JSString("what is depreciation"), topK |-> JSUndefined,
   threshold |-> JSUndefined, filterDoc |-> JSUndefined, chunkType |-> JSUndefined]

QueryValues ==
  {JSUndefined, JSNull, JSString(""), JSNumber(5), JSObject,
   JSString(" \t"), JSString("what\tis   WACC^")}
TopKValues      == {JSNumber(1), JSString("5"), JSNull}
ThresholdValues == {JSNumber(50), JSString("0.5")}      \* numbers in hundredths
FilterDocValues == {JSString("doc-a"), JSString(""), JSNumber(7)}
ChunkTypeValues == {JSString("mcq_question"), JSNumber(7), JSObject}

\* req.body: the plain body, and the bodies that differ from it in one field
Bodies ==
  {PlainBody}
  \cup {[PlainBody EXCEPT !.query = v] : v \in QueryValues}
  \cup {[PlainBody EXCEPT !.topK = v] : v \in TopKValues}
  \cup {[PlainBody EXCEPT !.threshold = v] : v \in ThresholdValues}
  \cup {[PlainBody EXCEPT !.filterDoc = v] : v \in FilterDocValues}
  \cup {[PlainBody EXCEPT !.chunkType = v] : v \in ChunkTypeValues}

\* error messages of a failed embedding call
EmbedFailures == {"429 Rate limit reached", "Connection error."}

Embedded(emb)   == [ok |-> TRUE, embedding |-> emb, message |-> NULL]
EmbedFailure(m) == [ok |-> FALSE, embedding |-> NULL, message |-> m]

NoResp == [status |-> 0, ok |-> FALSE, error |-> NULL, details |-> NULL, hits |-> <<>>]

\* res.status(status).json({ ok: false, error: message, details })
jsonError(status, message, details) ==
  [status |-> status, ok |-> FALSE, error |-> message, details |-> details,
   hits |-> <<>>]

\* hits.map((h) => ({ document_id, chunk_type: h.chunk_type || 'other', ... }))
SearchHits(rs) ==
  [i \in DOMAIN rs |->
     [document_id |-> rs[i].document_id,
      chunk_type |-> IF rs[i].chunk_type \in {NULL, ""} THEN "other"
                     ELSE rs[i].chunk_type,
      similarity |-> rs[i].similarity,
      content |-> rs[i].content]]

\* res.json({ ok: true, hits })
jsonHits(rs) ==
  [status |-> 200, ok |-> TRUE, error |-> NULL, details |-> NULL,
   hits |-> SearchHits(rs)]

\* String(e?.message || e) of the error object retrieveContext throws
ErrorText(err) ==
  IF err.message \in {NULL, ""} THEN "[object Object]" ELSE err.message

\* !(!query || typeof query !== "string")
QueryAccepted(b) == Truthy(b.query) /\ b.query.type = "string"

\* typeof v === "number" ? v : d
NumberOr(v, d) == IF v.type = "number" THEN v.num ELSE d
\* typeof v === "string" ? v : null
StringOrNull(v) == IF v.type = "string" THEN v.text ELSE NULL

\* the argument of retrieveContext
SearchArgs(b, emb) ==
  [queryEmbedding  |-> emb,
   topK            |-> NumberOr(b.topK, DEFAULT_TOPK),
   threshold       |-> NumberOr(b.threshold, DEFAULT_MATCH_THRESHOLD),
   filterDoc       |-> StringOrNull(b.filterDoc),
   filterChunkType |-> StringOrNull(b.chunkType)]

ReqInit ==
  /\ req \in Bodies
  /\ embedCalls = <<>>
  /\ embedResps = <<>>
  /\ qResp = NoResp
  /\ qpc = "start"
  /\ rStore \in {"new", "old"}
  /\ rArgs = NULL
  /\ rCalls = <<>>
  /\ rResps = <<>>
  /\ rData = NoData
  /\ rError = NoError
  /\ rOut = NoOut
  /\ rpc = "idle"

ReqIdle ==
  /\ req = NULL
  /\ embedCalls = <<>>
  /\ embedResps = <<>>
  /\ qResp = NoResp
  /\ qpc = "idle"

\* if (!query || typeof query !== "string") return jsonError(res, 400, "query required")
SearchReject ==
  /\ qpc = "start"
  /\ ~QueryAccepted(req)
  /\ qResp' = jsonError(400, "query required", NULL)
  /\ qpc' = "done"
  /\ UNCHANGED <<req, embedCalls, embedResps>>
  /\ UNCHANGED <<clsVars, valVars, retrVars, asmVars, batchVars>>

\* embedOne(query), up to await openai.embeddings.create({ model, input: clean })
SearchEmbedCall ==
  /\ qpc = "start"
  /\ QueryAccepted(req)
  /\ embedCalls' = Append(embedCalls, EmbedInput(req.query.text))
  /\ qpc' = "embedding"
  /\ UNCHANGED <<req, embedResps, qResp>>
  /\ UNCHANGED <<clsVars, valVars, retrVars, asmVars, batchVars>>

\* the embedding arrives and retrieveContext is called with it
SearchEmbedded ==
  /\ qpc = "embedding"
  /\ \E emb \in Embeddings :
       /\ embedResps' = Append(embedResps, Embedded(emb))
       /\ rArgs' = SearchArgs(req, emb)
  /\ rpc' = "start"
  /\ qpc' = "retrieving"
  /\ UNCHANGED <<req, embedCalls, qResp>>
  /\ UNCHANGED <<rCalls, rResps, rData, rError, rOut, rStore>>
  /\ UNCHANGED <<clsVars, valVars, asmVars, batchVars>>

\* a handler that makes the embedding call once more when it has failed
SearchEmbedFailedRetried ==
  /\ qpc = "embedding"
  /\ \E m \in EmbedFailures :
       /\ embedResps' = Append(embedResps, EmbedFailure(m))
       /\ IF Len(embedCalls) = 1
          THEN /\ embedCalls' = Append(embedCalls, embedCalls[1])
               /\ UNCHANGED <<qResp, qpc>>
          ELSE /\ qResp' = jsonError(500, "search error", m)
               /\ qpc' = "done"
               /\ UNCHANGED embedCalls
  /\ UNCHANGED req
  /\ UNCHANGED <<clsVars, valVars, retrVars, asmVars, batchVars>>

\* the embedding call fails:
\* catch (e) { return jsonError(res, 500, "search error", String(e?.message || e)) }
SearchEmbedFailed ==
  /\ qpc = "embedding"
  /\ \E m \in EmbedFailures :
       /\ embedResps' = Append(embedResps, EmbedFailure(m))
       /\ qResp' = jsonError(500, "search error", m)
  /\ qpc' = "done"
  /\ UNCHANGED <<req, embedCalls>>
  /\ UNCHANGED <<clsVars, valVars, retrVars, asmVars, batchVars>>

\* retrieveContext has returned (res.json) or thrown (catch)
SearchRespond ==
  /\ qpc = "retrieving"
  /\ rpc = "done"
  /\ qResp' = IF rOut.kind = "return" THEN jsonHits(rOut.rows)
              ELSE jsonError(500, "search error", ErrorText(rOut.error))
  /\ qpc' = "done"
  /\ UNCHANGED <<req, embedCalls, embedResps>>
  /\ UNCHANGED <<clsVars, valVars, retrVars, asmVars, batchVars>>

SearchNext ==
  \/ SearchReject
  \/ SearchEmbedCall
  \/ SearchEmbedded
  \/ SearchEmbedFailed
  \/ RetrieveFirstCall
  \/ RetrieveFallback
  \/ RetrieveFinish
  \/ SearchRespond

ClsIdle ==
  /\ content = NULL
  /\ cres = [server |-> NoClass, script |-> NoClass]
  /\ cpc = "idle"
  /\ lastIndex = ZeroIndex
  /\ calls = <<>>

RetrIdle ==
  /\ rArgs = NULL
  /\ rCalls = <<>>
  /\ rResps = <<>>
  /\ rData = NoData
  /\ rError = NoError
  /\ rOut = NoOut
  /\ rpc = "idle"
  /\ rStore = "any"

AsmIdle ==
  /\ hits = <<>>
  /\ maxChars = 0
  /\ out = ""
  /\ hidx = 1
  /\ bResult = NULL
  /\ bpc = "idle"

(***************************************************************************)
(* Batch classification runners.                                           *)
(*   admin   : POST /api/admin/classify-chunks  (src/server.js)            *)
(*   part000 : classifyAllChunks                (src/unnamed/part_000)     *)
(*   script  : classifyAllChunks        (src/scripts/classify-chunks.js)   *)
(* The page size and the cap are scaled down: BATCH_SIZE is 100 and        *)
(* BATCH_LIMIT 5000 in part_000, batchSize is 500 in the script, limit is  *)
(* 1000 by default in the endpoint.                                        *)
(***************************************************************************)
MaxChunks == 3
MaxCap == 3
MaxPage == 2

ChunkIds == 1..MaxChunks

\* contents of the stored chunks
TextMcq    == "1. What is par value? A. x B. y"
TextPlain  == "zzzzzzzzzzzz"
TextNumber == "Q7 zzzzzzzzz"
BatchContents == {TextMcq, TextPlain, TextNumber}

\* classifyChunk on the stored contents, evaluated once
ServerClass == [c \in BatchContents |-> classifyChunk(c)]
ScriptClass == [c \in BatchContents |-> scriptClassifyChunk(c)]

\* a chunk as created at ingestion (chunk_type unset or the column default)
NewChunks ==
  {[content |-> TextMcq,    chunk_type |-> NULL,    question_no |-> NULL],
   [content |-> TextPlain,  chunk_type |-> NULL,    question_no |-> NULL],
   [content |-> TextNumber, chunk_type |-> NULL,    question_no |-> NULL],
   [content |-> TextMcq,    chunk_type |-> "other", question_no |-> NULL]}

ZeroStats == [mcq_question |-> 0, mcq_answer |-> 0, essay |-> 0, other |-> 0, updated |-> 0]

\* stats[chunk_type]++
Bump(st, key) == [st EXCEPT ![key] = @ + 1]

\* the elements of a set of numbers, ascending
RECURSIVE Ascending(_)
Ascending(S) == IF S = {} THEN <<>> ELSE <<Min(S)>> \o Ascending(S \ {Min(S)})

SmallerOf(a, b) == IF a < b THEN a ELSE b

\* .is('chunk_type', null)
UnsetIds(st) == {i \in DOMAIN st : st[i].chunk_type = NULL}
\* .or("chunk_type.is.null,chunk_type.eq.other")
UnsetOrOtherIds(st) == {i \in DOMAIN st : st[i].chunk_type \in {NULL, "other"}}

\* the rows select("id, content, chunk_type") returns for the ids
RowsOf(st, ids) ==
  [k \in 1..Len(ids) |-> [id |-> ids[k], content |-> st[ids[k]].content]]

\* .order('id').range(from, from + size - 1) over the candidates
OrderedPage(cands, from, size) ==
  LET all == Ascending(cands)
  IN  SubSeq(all, from + 1, SmallerOf(from + size, Len(all)))

\* .range(from, from + size - 1) or .limit(size) without an order: the rows
\* at these positions of whatever order the store lists the candidates in
UnorderedPages(cands, from, size) ==
  LET n == Cardinality(cands)
      k == IF n <= from THEN 0 ELSE SmallerOf(size, n - from)
  IN  {Ascending(S) : S \in {T \in SUBSET cands : Cardinality(T) = k}}

\* an update that sets the type and leaves the question number
UpdatedTypeOnly(st, id, cls) ==
  [st EXCEPT ![id].chunk_type = cls.chunk_type]

\* .update({ chunk_type, question_no }).eq("id", id): the store after it
Updated(st, id, cls) ==
  [st EXCEPT ![id].chunk_type = cls.chunk_type, ![id].question_no = cls.question_no]

\* whether the store accepts the update of id
UpdateOk(id) == id # failId

WriteRec(id, cls) ==
  [id |-> id, chunk_type |-> cls.chunk_type, question_no |-> cls.question_no,
   ok |-> UpdateOk(id)]

\* the if guarding the update of the endpoint and the push of the script
Eligible(cls) == cls.chunk_type # "other" \/ cls.question_no # NULL

BatchConfigs ==
  {[impl |-> "admin", cap |-> c, batchSize |-> 0] : c \in 1..MaxCap}
  \cup {[impl |-> "part000", cap |-> c, batchSize |-> b] : c \in 1..MaxCap, b \in 1..MaxPage}
  \cup {[impl |-> "script", cap |-> 0, batchSize |-> b] : b \in 1..MaxPage}

\* the configurations whose cap no store of the model reaches
UncappedConfigs == {cfg \in BatchConfigs : cfg.impl = "script" \/ cfg.cap >= MaxChunks}

BatchInitWith(nruns, withFaults, cfgs) ==
  /\ \E cfg \in cfgs :
       /\ impl = cfg.impl
       /\ cap = cfg.cap
       /\ batchSize = cfg.batchSize
  /\ store \in [ChunkIds -> NewChunks]
  /\ store0 = store
  /\ storeRun1 = store
  /\ dryRun \in (IF nruns = 1 THEN BOOLEAN ELSE {FALSE})
  /\ failId \in (IF withFaults THEN {0} \cup ChunkIds ELSE {0})
  /\ faults = withFaults
  /\ parked = <<>>
  /\ runsWanted = nruns
  /\ offset = 0
  /\ totalProcessed = 0
  /\ stats = ZeroStats
  /\ chunks = <<>>
  /\ cidx = 1
  /\ updates = <<>>
  /\ writes = <<>>
  /\ fetches = <<>>
  /\ processed = <<>>
  /\ run = 1
  /\ jpc = "start"

BatchIdle ==
  /\ impl = "none"
  /\ cap = 0
  /\ batchSize = 0
  /\ store = <<>>
  /\ store0 = <<>>
  /\ storeRun1 = <<>>
  /\ dryRun = FALSE
  /\ failId = 0
  /\ faults = FALSE
  /\ parked = <<>>
  /\ runsWanted = 0
  /\ offset = 0
  /\ totalProcessed = 0
  /\ stats = ZeroStats
  /\ chunks = <<>>
  /\ cidx = 1
  /\ updates = <<>>
  /\ writes = <<>>
  /\ fetches = <<>>
  /\ processed = <<>>
  /\ run = 0
  /\ jpc = "idle"

batchParams == <<impl, store0, storeRun1, dryRun, cap, batchSize, run, runsWanted,
                 failId, faults, parked>>

others == <<clsVars, valVars, retrVars, asmVars, reqVars>>

FetchFaults == IF faults THEN BOOLEAN ELSE {FALSE}

\* the entry of fetches for a fetch the store answered with an error
FetchFailed == 0 - 1

(*************************** the admin endpoint ****************************)
\* select(...).or(...).limit(limit); if (error) throw error;
\* if (!chunks || chunks.length === 0) return res.json({ processed: 0 })
AdminFetch ==
  /\ impl = "admin"
  /\ jpc = "start"
  /\ \E err \in FetchFaults, pg \in UnorderedPages(UnsetOrOtherIds(store), 0, cap) :
       IF err
       THEN /\ jpc' = "failed"
            /\ fetches' = Append(fetches, FetchFailed)
            /\ UNCHANGED chunks
       ELSE /\ chunks' = RowsOf(store, pg)
            /\ fetches' = Append(fetches, Len(pg))
            /\ jpc' = IF pg = <<>> THEN "done" ELSE "classify"
  /\ cidx' = 1
  /\ stats' = ZeroStats
  /\ UNCHANGED <<store, offset, totalProcessed, updates, writes, processed>>
  /\ UNCHANGED <<batchParams, others>>

\* the iteration with stats.updated++ made whatever the update answered
AdminStepCountsRejected ==
  /\ impl = "admin"
  /\ jpc = "classify"
  /\ cidx <= Len(chunks)
  /\ LET chunk   == chunks[cidx]
         cls     == ServerClass[chunk.content]
         doWrite == ~dryRun /\ Eligible(cls)
         ok      == UpdateOk(chunk.id)
     IN  /\ stats' = [Bump(stats, cls.chunk_type) EXCEPT
                        !.updated = IF doWrite THEN @ + 1 ELSE @]
         /\ store' = IF doWrite /\ ok THEN Updated(store, chunk.id, cls) ELSE store
         /\ writes' = IF doWrite THEN Append(writes, WriteRec(chunk.id, cls)) ELSE writes
         /\ processed' = Append(processed, chunk.id)
  /\ cidx' = cidx + 1
  /\ UNCHANGED <<offset, totalProcessed, chunks, updates, fetches, jpc>>
  /\ UNCHANGED <<batchParams, others>>

\* one iteration of for (const chunk of chunks)
AdminStep ==
  /\ impl = "admin"
  /\ jpc = "classify"
  /\ cidx <= Len(chunks)
  /\ LET chunk   == chunks[cidx]
         cls     == ServerClass[chunk.content]
         doWrite == ~dryRun /\ Eligible(cls)
         ok      == UpdateOk(chunk.id)
     IN  /\ stats' = [Bump(stats, cls.chunk_type) EXCEPT
                        !.updated = IF doWrite /\ ok THEN @ + 1 ELSE @]
         /\ store' = IF doWrite /\ ok THEN Updated(store, chunk.id, cls) ELSE store
         /\ writes' = IF doWrite THEN Append(writes, WriteRec(chunk.id, cls)) ELSE writes
         /\ processed' = Append(processed, chunk.id)
  /\ cidx' = cidx + 1
  /\ UNCHANGED <<offset, totalProcessed, chunks, updates, fetches, jpc>>
  /\ UNCHANGED <<batchParams, others>>

\* res.json({ ok: true, dryRun, processed: chunks.length, stats })
AdminRespond ==
  /\ impl = "admin"
  /\ jpc = "classify"
  /\ cidx > Len(chunks)
  /\ totalProcessed' = Len(chunks)
  /\ jpc' = "done"
  /\ UNCHANGED <<store, offset, stats, chunks, cidx, updates, writes, fetches, processed>>
  /\ UNCHANGED <<batchParams, others>>

(******************** classifyAllChunks of part_000 ************************)
\* while (totalProcessed < BATCH_LIMIT) { fetch; if (error) break;
\*   if (!chunks || chunks.length === 0) break; ...
P0Fetch ==
  /\ impl = "part000"
  /\ jpc = "start"
  /\ IF ~(totalProcessed < cap)
     THEN /\ jpc' = "done"
          /\ UNCHANGED <<chunks, fetches>>
     ELSE \E err \in FetchFaults :
            LET pg == OrderedPage(UnsetIds(store), offset, batchSize)
            IN  IF err
                THEN /\ jpc' = "done"
                     /\ fetches' = Append(fetches, FetchFailed)
                     /\ UNCHANGED chunks
                ELSE /\ chunks' = RowsOf(store, pg)
                     /\ fetches' = Append(fetches, Len(pg))
                     /\ jpc' = IF pg = <<>> THEN "done" ELSE "classify"
  /\ cidx' = 1
  /\ updates' = <<>>
  /\ UNCHANGED <<store, offset, totalProcessed, stats, writes, processed>>
  /\ UNCHANGED <<batchParams, others>>

\* one iteration of the loop that classifies: stats[chunk_type]++; updates.push
P0Classify ==
  /\ impl = "part000"
  /\ jpc = "classify"
  /\ LET chunk == chunks[cidx]
         cls   == ServerClass[chunk.content]
     IN  /\ stats' = Bump(stats, cls.chunk_type)
         /\ updates' = Append(updates, [id |-> chunk.id, cls |-> cls])
         /\ processed' = Append(processed, chunk.id)
  /\ IF cidx = Len(chunks)
     THEN jpc' = "update" /\ cidx' = 1
     ELSE jpc' = "classify" /\ cidx' = cidx + 1
  /\ UNCHANGED <<store, offset, totalProcessed, chunks, writes, fetches>>
  /\ UNCHANGED <<batchParams, others>>

\* the updates made without the test of DRY_RUN
P0UpdateInDryRun ==
  /\ impl = "part000"
  /\ jpc = "update"
  /\ cidx <= Len(updates)
  /\ LET u == updates[cidx]
     IN  /\ store' = IF UpdateOk(u.id) THEN Updated(store, u.id, u.cls) ELSE store
         /\ writes' = Append(writes, WriteRec(u.id, u.cls))
  /\ cidx' = cidx + 1
  /\ UNCHANGED <<offset, totalProcessed, stats, chunks, updates, fetches, processed, jpc>>
  /\ UNCHANGED <<batchParams, others>>

\* one iteration of for (const update of updates), under
\* if (!DRY_RUN && updates.length > 0)
P0Update ==
  /\ impl = "part000"
  /\ jpc = "update"
  /\ ~dryRun
  /\ cidx <= Len(updates)
  /\ LET u == updates[cidx]
     IN  /\ store' = IF UpdateOk(u.id) THEN Updated(store, u.id, u.cls) ELSE store
         /\ writes' = Append(writes, WriteRec(u.id, u.cls))
  /\ cidx' = cidx + 1
  /\ UNCHANGED <<offset, totalProcessed, stats, chunks, updates, fetches, processed, jpc>>
  /\ UNCHANGED <<batchParams, others>>

\* totalProcessed += chunks.length; offset += BATCH_SIZE;
P0PageEnd ==
  /\ impl = "part000"
  /\ jpc = "update"
  /\ dryRun \/ cidx > Len(updates)
  /\ totalProcessed' = totalProcessed + Len(chunks)
  /\ offset' = offset + batchSize
  /\ jpc' = "start"
  /\ UNCHANGED <<store, stats, chunks, cidx, updates, writes, fetches, processed>>
  /\ UNCHANGED <<batchParams, others>>

(************* classifyAllChunks of scripts/classify-chunks.js *************)
\* while (true) { fetch; if (error) break;
\*   if (!chunks || chunks.length === 0) break; ...
ScriptFetch ==
  /\ impl = "script"
  /\ jpc = "start"
  /\ \E err \in FetchFaults,
        pg \in UnorderedPages(UnsetOrOtherIds(store), offset, batchSize) :
       IF err
       THEN /\ jpc' = "done"
            /\ fetches' = Append(fetches, FetchFailed)
            /\ UNCHANGED chunks
       ELSE /\ chunks' = RowsOf(store, pg)
            /\ fetches' = Append(fetches, Len(pg))
            /\ jpc' = IF pg = <<>> THEN "done" ELSE "classify"
  /\ cidx' = 1
  /\ updates' = <<>>
  /\ UNCHANGED <<store, offset, totalProcessed, stats, writes, processed>>
  /\ UNCHANGED <<batchParams, others>>

\* one iteration of the loop that classifies:
\* if (chunk_type !== "other" || question_no) { updates.push; stats[chunk_type]++ }
\* else stats.other++
ScriptClassify ==
  /\ impl = "script"
  /\ jpc = "classify"
  /\ LET chunk == chunks[cidx]
         cls   == ScriptClass[chunk.content]
     IN  /\ stats' = Bump(stats, IF Eligible(cls) THEN cls.chunk_type ELSE "other")
         /\ updates' = IF Eligible(cls)
                       THEN Append(updates, [id |-> chunk.id, cls |-> cls])
                       ELSE updates
         /\ processed' = Append(processed, chunk.id)
  /\ IF cidx = Len(chunks)
     THEN jpc' = "update" /\ cidx' = 1
     ELSE jpc' = "classify" /\ cidx' = cidx + 1
  /\ UNCHANGED <<store, offset, totalProcessed, chunks, writes, fetches>>
  /\ UNCHANGED <<batchParams, others>>

\* one iteration of for (const update of updates), under
\* if (!dryRun && updates.length > 0)
ScriptUpdate ==
  /\ impl = "script"
  /\ jpc = "update"
  /\ ~dryRun
  /\ cidx <= Len(updates)
  /\ LET u == updates[cidx]
     IN  /\ store' = IF UpdateOk(u.id) THEN Updated(store, u.id, u.cls) ELSE store
         /\ writes' = Append(writes, WriteRec(u.id, u.cls))
  /\ cidx' = cidx + 1
  /\ UNCHANGED <<offset, totalProcessed, stats, chunks, updates, fetches, processed, jpc>>
  /\ UNCHANGED <<batchParams, others>>

\* totalProcessed += chunks.length; offset += batchSize;
ScriptPageEnd ==
  /\ impl = "script"
  /\ jpc = "update"
  /\ dryRun \/ cidx > Len(updates)
  /\ totalProcessed' = totalProcessed + Len(chunks)
  /\ offset' = offset + batchSize
  /\ jpc' = "start"
  /\ UNCHANGED <<store, stats, chunks, cidx, updates, writes, fetches, processed>>
  /\ UNCHANGED <<batchParams, others>>

\* the runner is started again once the first run has ended
StartSecondRun ==
  /\ jpc = "done"
  /\ run < runsWanted
  /\ storeRun1' = store
  /\ run' = run + 1
  /\ offset' = 0
  /\ totalProcessed' = 0
  /\ stats' = ZeroStats
  /\ chunks' = <<>>
  /\ cidx' = 1
  /\ updates' = <<>>
  /\ writes' = <<>>
  /\ fetches' = <<>>
  /\ processed' = <<>>
  /\ jpc' = "start"
  /\ UNCHANGED <<impl, store, store0, dryRun, cap, batchSize, runsWanted, failId, faults, parked>>
  /\ UNCHANGED others

\* the runner is invoked again, any number of times
StartNextRun ==
  /\ jpc = "done"
  /\ runsWanted = 0
  /\ storeRun1' = store
  /\ offset' = 0
  /\ totalProcessed' = 0
  /\ stats' = ZeroStats
  /\ chunks' = <<>>
  /\ cidx' = 1
  /\ updates' = <<>>
  /\ writes' = <<>>
  /\ fetches' = <<>>
  /\ processed' = <<>>
  /\ jpc' = "start"
  /\ UNCHANGED <<impl, store, store0, dryRun, cap, batchSize, run, runsWanted, failId, faults, parked>>
  /\ UNCHANGED others

(*********************** concurrent runs of a runner ***********************)
\* The variables of a run (offset, chunks, updates, ...) are the locals of
\* the run that takes the next step; the locals of the other runs are
\* parked.  The store and the log of the update calls are shared.
Locals ==
  [dryRun |-> dryRun, offset |-> offset, totalProcessed |-> totalProcessed,
   stats |-> stats, chunks |-> chunks, cidx |-> cidx, updates |-> updates,
   fetches |-> fetches, processed |-> processed, jpc |-> jpc]

FreshLocals(dry) ==
  [dryRun |-> dry, offset |-> 0, totalProcessed |-> 0, stats |-> ZeroStats,
   chunks |-> <<>>, cidx |-> 1, updates |-> <<>>, fetches |-> <<>>,
   processed |-> <<>>, jpc |-> "start"]

\* the stores the runs start from: chunk 1 is a question, unset or with
\* the column default; chunk 2 has a question number, and is unset or
\* holds a type given earlier; the other chunks are plain and unset
ConStores ==
  {[i \in ChunkIds |->
      IF i = 1 THEN [content |-> TextMcq, chunk_type |-> t1, question_no |-> NULL]
      ELSE IF i = 2 THEN [content |-> TextNumber, chunk_type |-> t2, question_no |-> NULL]
      ELSE [content |-> TextPlain, chunk_type |-> NULL, question_no |-> NULL]] :
     t1 \in {NULL, "other"}, t2 \in {NULL, "essay"}}

ConConfigs ==
  {cfg \in BatchConfigs : cfg.impl = "script" \/ cfg.cap = MaxCap}

\* two executions of the same runner about to start: one live, the other
\* live or dry (when both are dry nothing is written)
ConInit ==
  /\ \E cfg \in ConConfigs :
       /\ impl = cfg.impl
       /\ cap = cfg.cap
       /\ batchSize = cfg.batchSize
  /\ store \in ConStores
  /\ store0 = store
  /\ storeRun1 = store
  /\ dryRun = FALSE
  /\ \E dry \in BOOLEAN : parked = <<FreshLocals(dry)>>
  /\ failId = 0
  /\ faults = FALSE
  /\ runsWanted = 1
  /\ offset = 0
  /\ totalProcessed = 0
  /\ stats = ZeroStats
  /\ chunks = <<>>
  /\ cidx = 1
  /\ updates = <<>>
  /\ writes = <<>>
  /\ fetches = <<>>
  /\ processed = <<>>
  /\ run = 1
  /\ jpc = "start"

\* the next step is taken by another run: at an await of one run the event
\* loop (or another process) runs any other execution.  The loop that
\* classifies a page in the paginated runners has no await and no access
\* to the store.
SwitchRun ==
  \E k \in DOMAIN parked :
    /\ jpc # "classify" \/ impl = "admin"
    /\ parked' = [parked EXCEPT ![k] = Locals]
    /\ dryRun' = parked[k].dryRun
    /\ offset' = parked[k].offset
    /\ totalProcessed' = parked[k].totalProcessed
    /\ stats' = parked[k].stats
    /\ chunks' = parked[k].chunks
    /\ cidx' = parked[k].cidx
    /\ updates' = parked[k].updates
    /\ fetches' = parked[k].fetches
    /\ processed' = parked[k].processed
    /\ jpc' = parked[k].jpc
    /\ UNCHANGED <<impl, store, store0, storeRun1, cap, batchSize, run, runsWanted,
                   failId, faults, writes>>
    /\ UNCHANGED others

BatchNext ==
  \/ AdminFetch \/ AdminStep \/ AdminRespond
  \/ P0Fetch \/ P0Classify \/ P0Update \/ P0PageEnd
  \/ ScriptFetch \/ ScriptClassify \/ ScriptUpdate \/ ScriptPageEnd

(***************************************************************************)
(* Specifications                                                          *)
(***************************************************************************)
\* classifyChunk on one content
InitClassify == ClsInit /\ RetrIdle /\ AsmIdle /\ BatchIdle /\ ValIdle /\ ReqIdle
SpecClassify == InitClassify /\ [][ClsNext]_vars

\* classifyChunk called several times in succession
InitClassifyCalls == CallsInit /\ RetrIdle /\ AsmIdle /\ BatchIdle /\ ValIdle /\ ReqIdle
SpecClassifyCalls == InitClassifyCalls /\ [][CallsNext]_vars

InitValue == ValInit /\ ClsIdle /\ RetrIdle /\ AsmIdle /\ BatchIdle /\ ReqIdle
SpecValue == InitValue /\ [][ValNext]_vars

InitSanitize == SanInit /\ ClsIdle /\ RetrIdle /\ AsmIdle /\ BatchIdle /\ ReqIdle
SpecSanitize == InitSanitize /\ [][SanNext]_vars

\* one call of retrieveContext
InitRetrieve == RetrInit /\ ClsIdle /\ AsmIdle /\ BatchIdle /\ ValIdle /\ ReqIdle
SpecRetrieve == InitRetrieve /\ [][RetrNext]_vars

\* one call of retrieveContext against the database function, before or
\* after the migration
InitRetrieveSql == RetrInitWith({"new", "old"}) /\ ClsIdle /\ AsmIdle /\ BatchIdle /\ ValIdle /\ ReqIdle
SpecRetrieveSql == InitRetrieveSql /\ [][RetrNext]_vars

\* one call of buildContextBlock
InitAssemble == AsmInit /\ ClsIdle /\ RetrIdle /\ BatchIdle /\ ValIdle /\ ReqIdle
SpecAssemble == InitAssemble /\ [][AsmNext]_vars

\* one run of a batch runner, live or dry, over a store that may reject
\* the update of one record and fail a fetch
InitBatch == BatchInitWith(1, TRUE, BatchConfigs) /\ ClsIdle /\ RetrIdle /\ AsmIdle /\ ValIdle /\ ReqIdle
SpecBatch == InitBatch /\ [][BatchNext]_vars

\* two live runs in succession over a store without faults, under a cap
\* that the number of chunks never reaches
InitBatchTwice == BatchInitWith(2, FALSE, UncappedConfigs) /\ ClsIdle /\ RetrIdle /\ AsmIdle /\ ValIdle /\ ReqIdle
BatchTwiceNext == BatchNext \/ StartSecondRun
SpecBatchTwice == InitBatchTwice /\ [][BatchTwiceNext]_vars

\* live runs of one runner without end, one after the other, over a store
\* without faults; every run that can take a step takes it
InitBatchForever == BatchInitWith(0, FALSE, BatchConfigs) /\ ClsIdle /\ RetrIdle /\ AsmIdle /\ ValIdle /\ ReqIdle
BatchForeverNext == BatchNext \/ StartNextRun
SpecBatchForever == InitBatchForever /\ [][BatchForeverNext]_vars /\ WF_vars(BatchForeverNext)

\* two concurrent executions of one runner over a store without faults
\* one request to POST /api/search, against the database before or after
\* the migration
InitSearch == ReqInit /\ ClsIdle /\ AsmIdle /\ BatchIdle /\ ValIdle
SpecSearch == InitSearch /\ [][SearchNext]_vars

InitBatchConcurrent == ConInit /\ ClsIdle /\ RetrIdle /\ AsmIdle /\ ValIdle /\ ReqIdle
BatchConcurrentNext == BatchNext \/ SwitchRun
SpecBatchConcurrent == InitBatchConcurrent /\ [][BatchConcurrentNext]_vars

(***************************************************************************)
(* Properties of retrieveContext (under SpecRetrieve)                      *)
(***************************************************************************)
\* the first call failed and its error is recognized as a schema mismatch
FirstCallMismatch ==
  /\ Len(rResps) >= 1
  /\ ~rResps[1].error.isNull
  /\ IsSchemaMismatch(rResps[1].error)

\* the first call failed and its error is not recognized as a schema mismatch
FirstCallOtherError ==
  /\ Len(rResps) >= 1
  /\ ~rResps[1].error.isNull
  /\ ~IsSchemaMismatch(rResps[1].error)

\* C1: when the first store call fails with a schema-mismatch error, the
\* store is called exactly once more, with the same query_embedding,
\* match_threshold and match_count and with neither filter; when that second
\* call succeeds the call returns its rows (those the noise filter keeps);
\* and the store is never called more than twice.
C1_CompatibilityFallback ==
  /\ Len(rCalls) <= 2
  /\ (rpc = "done" /\ FirstCallMismatch) =>
       /\ Len(rCalls) = 2
       /\ DOMAIN rCalls[2] = {"query_embedding", "match_threshold", "match_count"}
       /\ rCalls[2].query_embedding = rCalls[1].query_embedding
       /\ rCalls[2].match_threshold = rCalls[1].match_threshold
       /\ rCalls[2].match_count = rCalls[1].match_count
       /\ rCalls[1].query_embedding = rArgs.queryEmbedding
       /\ rCalls[1].match_threshold = rArgs.threshold
       /\ rCalls[1].match_count = rArgs.topK
       /\ rResps[2].error.isNull =>
            /\ rOut.kind = "return"
            /\ rOut.rows = FilterNoisy(rResps[2].data.rows)

\* a call with a type filter whose first attempt was rejected for its
\* parameters and whose fallback brought rows back
C1_Witness ==
  /\ rpc = "done"
  /\ FirstCallMismatch
  /\ rCalls[1].filter_chunk_type = "mcq_question"
  /\ Len(rCalls) = 2
  /\ rResps[2].error.isNull
  /\ rOut.kind = "return"
  /\ rOut.rows # <<>>

\* C2: a store error that is not a recognized schema mismatch is never
\* retried: the store is called once and the call fails with that error,
\* returning no hits; and when the fallback attempt fails, no further call
\* is made and the call fails with the fallback's error.
C2_NoOtherRetry ==
  /\ FirstCallOtherError => Len(rCalls) = 1
  /\ (rpc = "done" /\ FirstCallOtherError) =>
       /\ rOut.kind = "throw"
       /\ rOut.error = rResps[1].error
       /\ rOut.rows = <<>>
  /\ (Len(rResps) = 2 /\ ~rResps[2].error.isNull) =>
       /\ Len(rCalls) = 2
       /\ rpc = "done" => (rOut.kind = "throw" /\ rOut.error = rResps[2].error
                           /\ rOut.rows = <<>>)

\* the call has failed on a time-out of its only store call
C2_Witness ==
  /\ rpc = "done"
  /\ FirstCallOtherError
  /\ rResps[1].error.message = "connection timeout"
  /\ Len(rCalls) = 1
  /\ rOut.kind = "throw"

(***************************************************************************)
(* Properties of classifyChunk (under SpecClassify)                        *)
(***************************************************************************)
PastGuard(c0) == c0 # NULL /\ Len(c0) >= MinContentLen

\* C3: past the length guard the detectors decide in the order question,
\* answer, essay: a positive question detector gives mcq_question whatever
\* the other two say; otherwise a positive answer detector gives mcq_answer;
\* and when none is positive the result is (other, extractQuestionNo(content)).
C3_DetectorPriority ==
  (cpc = "done" /\ PastGuard(content)) =>
    LET r == cres.server
        q == isMCQQuestion(content)
        a == isMCQAnswer(content)
        e == isEssay(content)
    IN  /\ q => r.chunk_type = "mcq_question"
        /\ (~q /\ a) => r.chunk_type = "mcq_answer"
        /\ (~q /\ ~a /\ ~e) =>
             r = [chunk_type |-> "other", question_no |-> extractQuestionNo(content)]

\* a content on which the three detectors are positive, classified mcq_question
C3_Witness ==
  /\ cpc = "done"
  /\ PastGuard(content)
  /\ isMCQQuestion(content) /\ isMCQAnswer(content) /\ isEssay(content)
  /\ cres.server.chunk_type = "mcq_question"

(***************************************************************************)
(* Properties of buildContextBlock (under SpecAssemble)                    *)
(***************************************************************************)
\* the pieces of the first k hits, one after the other
RECURSIVE PiecesOf(_, _)
PiecesOf(hs, k) == IF k = 0 THEN "" ELSE PiecesOf(hs, k - 1) \o Piece(hs[k])

\* the largest k such that the pieces of the first k hits fit the budget
LongestPrefix(hs, budget) ==
  Max({k \in 0..Len(hs) : Len(PiecesOf(hs, k)) <= budget})

\* C4: the text returned is never longer than max_chars, whatever the hits.
C4_LengthWithinBudget ==
  /\ Len(out) <= maxChars
  /\ bpc = "done" => Len(bResult) <= maxChars

\* a text was returned after a hit was refused for the budget
C4_Witness ==
  /\ bpc = "done"
  /\ Len(bResult) > 0
  /\ hidx <= Len(hits)

\* C5: the text returned is made of the pieces of exactly the longest prefix
\* of the hits that fits max_chars (a prefix that fills it exactly fits), in
\* the order given and uncut, less the white space that ends the last piece;
\* no hit after the first refused one is taken.
C5_GreedyPrefix ==
  bpc = "done" =>
    /\ hidx - 1 = LongestPrefix(hits, maxChars)
    /\ out = PiecesOf(hits, hidx - 1)
    /\ bResult = Trim(out)

\* of three hits the second was refused and the third, which would still
\* have fitted after the first, was not taken
C5_Witness ==
  /\ bpc = "done"
  /\ Len(hits) = 3
  /\ hidx = 2
  /\ Len(out) + Len(Piece(hits[3])) <= maxChars
  /\ bResult = Trim(Piece(hits[1]))

(***************************************************************************)
(* Properties of the batch runners (under SpecBatch and SpecBatchTwice)    *)
(***************************************************************************)
\* the classification the runner in use gives a content
ClassOf(c0) == IF impl = "script" THEN ScriptClass[c0] ELSE ServerClass[c0]

Range(f) == {f[k] : k \in DOMAIN f}

\* C6: of two live runs in succession over a store nothing else modifies,
\* the second changes no stored type: the types after the second run are
\* the types after the first.
C6_SecondRunChangesNoType ==
  (run = 2 /\ jpc = "done") =>
    \A id \in ChunkIds : store[id].chunk_type = storeRun1[id].chunk_type

\* C7: a run with dry_run set never writes: at every point of the run the
\* stored type and question number of every record are those of the start,
\* and no update was sent, whichever runner is used.
C7_DryRunWritesNothing ==
  dryRun =>
    /\ writes = <<>>
    /\ \A id \in ChunkIds :
         /\ store[id].chunk_type = store0[id].chunk_type
         /\ store[id].question_no = store0[id].question_no

\* a dry run has ended after several pages, one of its records being one
\* that a live run writes
C7_Witness ==
  /\ dryRun
  /\ jpc = "done"
  /\ impl = "part000"
  /\ Len(fetches) >= 2
  /\ \E k \in DOMAIN processed : Eligible(ClassOf(store0[processed[k]].content))

\* C8: in a live run an update is sent for a fetched record if and only if
\* its classification is not (other, no question number), and the update
\* carries the classified type and question number of that record.
C8_WriteIffEligible ==
  ~dryRun =>
    /\ \A k \in DOMAIN writes :
         LET w   == writes[k]
             cls == ClassOf(store0[w.id].content)
         IN  /\ w.chunk_type = cls.chunk_type
             /\ w.question_no = cls.question_no
             /\ Eligible(cls)
    /\ jpc = "done" =>
         \A k \in DOMAIN processed :
           Eligible(ClassOf(store0[processed[k]].content)) =>
             \E j \in DOMAIN writes : writes[j].id = processed[k]

\* the store after part_000 has written the updates of a page, none failing
RECURSIVE P0PageWritten(_, _)
P0PageWritten(st, pg) ==
  IF pg = <<>> THEN st
  ELSE P0PageWritten(Updated(st, Head(pg), ServerClass[st[Head(pg)].content]), Tail(pg))

\* the ids a live run of part_000 classifies, in order, when no update fails
RECURSIVE P0RunIds(_, _, _)
P0RunIds(st, off, total) ==
  IF ~(total < cap) THEN <<>>
  ELSE LET pg == OrderedPage(UnsetIds(st), off, batchSize)
       IN  IF pg = <<>> THEN <<>>
           ELSE pg \o P0RunIds(P0PageWritten(st, pg), off + batchSize, total + Len(pg))

\* C9: a rejected update aborts neither the page nor the run: the run ends
\* with its counts, having classified the records it classifies when no
\* update is rejected (and possibly others) and sent an update for each
\* eligible one, and the rejected update is not counted with the successful
\* ones.
C9_FailureIsLocal ==
  (jpc = "done" /\ ~dryRun /\ FetchFailed \notin Range(fetches)) =>
    /\ stats.mcq_question + stats.mcq_answer + stats.essay + stats.other = Len(processed)
    /\ impl = "admin" =>
         /\ processed = [k \in DOMAIN chunks |-> chunks[k].id]
         /\ \A k \in DOMAIN chunks :
              Eligible(ClassOf(chunks[k].content)) =>
                \E j \in DOMAIN writes : writes[j].id = chunks[k].id
         /\ stats.updated = Cardinality({j \in DOMAIN writes : writes[j].ok})
    /\ impl = "part000" =>
         \A id \in Range(P0RunIds(store0, 0, 0)) :
           /\ id \in Range(processed)
           /\ \E j \in DOMAIN writes : writes[j].id = id

\* C10: a run of a capped runner never fetches and classifies more chunks
\* than its cap, and fetches no page after an empty one.
C10_CapRespected ==
  impl \in {"admin", "part000"} =>
    /\ Len(processed) <= cap
    /\ totalProcessed <= cap
    /\ \A k \in DOMAIN fetches : k < Len(fetches) => fetches[k] # 0


(***************************************************************************)
(* Properties of the detectors of classifyChunk (under SpecClassify)       *)
(***************************************************************************)
\* the type the detectors give a content, in their order
DetectorType(c0) ==
  IF isMCQQuestion(c0) THEN "mcq_question"
  ELSE IF isMCQAnswer(c0) THEN "mcq_answer"
  ELSE IF isEssay(c0) THEN "essay"
  ELSE "other"

\* C11: an absent content and a content of fewer than 10 characters give
\* (other, absent) whatever the detectors and the question-number patterns
\* find in it; a content of 10 characters or more is given to the detectors.
C11_LengthGuard ==
  cpc = "done" =>
    IF content = NULL \/ Len(content) < MinContentLen
    THEN cres.server = [chunk_type |-> "other", question_no |-> NULL]
    ELSE cres.server = [chunk_type |-> DetectorType(content),
                        question_no |-> extractQuestionNo(content)]

\* the nine characters "Q1. A) x?", a question with a number for the
\* detectors, were classified (other, absent)
C11_Witness ==
  /\ cpc = "done"
  /\ content = "Q1. A) x?"
  /\ Len(content) = MinContentLen - 1
  /\ isMCQQuestion(content)
  /\ extractQuestionNo(content) = "1"
  /\ cres.server = [chunk_type |-> "other", question_no |-> NULL]


\* C12: past the length guard the type is mcq_question if and only if a
\* choice-like signal (a choice item, an option word, or three option
\* labels) and a question-like signal (a question mark or a question word)
\* are both present; one of them alone never gives mcq_question.
C12_QuestionIsConjunction ==
  (cpc = "done" /\ PastGuard(content)) =>
    LET choiceLike   == hasChoices(content) \/ hasMultipleOptions(content)
        questionLike == hasQuestion(content)
    IN  (cres.server.chunk_type = "mcq_question") <=> (choiceLike /\ questionLike)

\* a content with a choice item and no question framing was not classified
\* mcq_question
C12_Witness ==
  /\ cpc = "done"
  /\ PastGuard(content)
  /\ hasChoices(content)
  /\ ~hasQuestion(content)
  /\ cres.server.chunk_type # "mcq_question"


\* C13: the type is essay if and only if the content is past the length
\* guard, neither the question detector nor the answer detector is positive,
\* and an essay keyword is present or the content is longer than 500
\* characters with at least two blank lines.
C13_EssayExactly ==
  cpc = "done" =>
    LET keyword  == Test(RE_essayKeyword, ToLowerCase(content), TRUE)
        longForm == Len(content) > LongFormLen
        breaks   == MatchCount(RE_blankLine, content, FALSE)
    IN  (cres.server.chunk_type = "essay") <=>
          /\ PastGuard(content)
          /\ ~isMCQQuestion(content)
          /\ ~isMCQAnswer(content)
          /\ keyword \/ (longForm /\ breaks >= 2)

\* a content of 501 characters with two blank lines and no essay keyword
\* was classified essay
C13_Witness ==
  /\ cpc = "done"
  /\ content # NULL
  /\ Len(content) = LongFormLen + 1
  /\ ~Test(RE_essayKeyword, ToLowerCase(content), TRUE)
  /\ MatchCount(RE_blankLine, content, FALSE) = 2
  /\ cres.server.chunk_type = "essay"


\* whether the k-th pattern of extractQuestionNo matches somewhere in c0
QuestionNoMatches(k, c0) ==
  LET pt == QuestionNoPatterns[k]
  IN  Test(Cat(<<pt[1], pt[2], pt[3]>>), c0, pt[4])

\* the group the k-th pattern of extractQuestionNo captures in c0
QuestionNoGroup(k, c0) ==
  LET pt == QuestionNoPatterns[k]
  IN  Capture(pt[1], pt[2], pt[3], c0, pt[4])

\* C14: the question number is the group captured by the lowest-numbered of
\* the five patterns that matches, a piece of the content as it stands, and
\* it is absent if and only if no pattern matches; a content matching
\* patterns 1 and 3 gets the capture of pattern 1 wherever the matches are.
C14_LowestPatternWins ==
  (cpc = "done" /\ PastGuard(content)) =>
    LET qno      == cres.server.question_no
        matching == {k \in 1..5 : QuestionNoMatches(k, content)}
    IN  /\ Len(QuestionNoPatterns) = 5
        /\ (qno = NULL) <=> (matching = {})
        /\ matching # {} =>
             /\ qno = QuestionNoGroup(Min(matching), content)
             /\ \E i, j \in 1..Len(content) : qno = SubSeq(content, i, j)
        /\ (1 \in matching /\ 3 \in matching) => qno = QuestionNoGroup(1, content)

\* a content that begins with the line "3)" and has "Q7" after it got the
\* question number 7
C14_Witness ==
  /\ cpc = "done"
  /\ PastGuard(content)
  /\ SubSeq(content, 1, 7) = "\n3) Q7 "
  /\ QuestionNoMatches(1, content)
  /\ QuestionNoGroup(3, content) = "3"
  /\ cres.server.question_no = "7"


(***************************************************************************)
(* Properties of successive calls of classifyChunk (SpecClassifyCalls)     *)
(***************************************************************************)
\* C15: classifyChunk is deterministic and stateless: whatever calls were
\* made before, on the same content or on others, a call returns what a
\* first call on that content returns, so two calls on one content return
\* the same type and question number; no RegExp cursor is left behind.
C15_CallsAreIndependent ==
  /\ lastIndex = ZeroIndex
  /\ \A i \in DOMAIN calls :
       /\ calls[i].server = classifyChunk(calls[i].content)
       /\ calls[i].script = scriptClassifyCall(calls[i].content, ZeroIndex).result
       /\ calls[i].script = scriptClassifyChunk(calls[i].content)
       /\ \A j \in DOMAIN calls :
            calls[i].content = calls[j].content =>
              (calls[i].server = calls[j].server /\ calls[i].script = calls[j].script)

\* the same question was classified twice, with a call on another content
\* in between, and both implementations gave it a type and a number twice
C15_Witness ==
  /\ Len(calls) = 3
  /\ calls[1].content = "1. What is par value? A. x B. y"
  /\ calls[3].content = calls[1].content
  /\ calls[2].content = "answer: C zzzzzzz"
  /\ calls[3].script = [chunk_type |-> "mcq_question", question_no |-> "1"]
  /\ calls[3].server = [chunk_type |-> "mcq_question", question_no |-> "1"]


\* content is null, the empty string, or white space only
IsBlank(c) == c = NULL \/ \A i \in 1..Len(c) : Ch(c, i) \in WhiteSpace

\* the rows of the store response that retrieveContext filtered
UsedRows == rResps[Len(rResps)].data.rows

\* C16: retrieve never returns a hit whose content is null, the empty
\* string, or white space only.
C16_NoBlankHit ==
  (rpc = "done" /\ rOut.kind = "return") =>
    \A i \in DOMAIN rOut.rows : ~IsBlank(rOut.rows[i].content)

\* what the filter does ensure: null and the empty string are dropped
EmptyContentDropped ==
  (rpc = "done" /\ rOut.kind = "return") =>
    \A i \in DOMAIN rOut.rows : rOut.rows[i].content \notin {NULL, ""}


ShareMarkers == {"t.me/", "telegram.me", "whatsapp"}

\* content holds a share marker in some letter case
HasShareMarker(c) ==
  c # NULL /\ \E m \in ShareMarkers : \E i \in 1..Len(c) :
    i + Len(m) - 1 <= Len(c) /\ ToLowerCase(SubSeq(c, i, i + Len(m) - 1)) = m

\* C17: a hit whose content contains "t.me/", "telegram.me" or "whatsapp"
\* in any letter case is never returned by retrieve, whatever its
\* similarity and its position in the store response.
C17_NoShareMarkerHit ==
  (rpc = "done" /\ rOut.kind = "return") =>
    /\ \A i \in DOMAIN rOut.rows : ~HasShareMarker(rOut.rows[i].content)
    /\ \A i \in DOMAIN UsedRows :
         HasShareMarker(UsedRows[i].content) =>
           \A j \in DOMAIN rOut.rows : rOut.rows[j] # UsedRows[i]

\* the store answered with the closest row carrying an upper-case marker
\* first and a plain row second, and only the plain row came back
C17_Witness ==
  /\ rpc = "done" /\ rOut.kind = "return"
  /\ Len(UsedRows) = 2
  /\ UsedRows[1] = Row(1, "Ask on WhatsApp")
  /\ UsedRows[2] = Row(2, "Depreciation reduces income.")
  /\ rOut.rows = <<UsedRows[2]>>


\* the positions of the rows of rs that are not noise, in ascending order
KeptPositions(rs) == {i \in DOMAIN rs : ~isNoisyChunk(rs[i].content)}

\* the k-th smallest member of a set of positions
KthOf(S, k) == CHOOSE i \in S : Cardinality({j \in S : j <= i}) = k

\* C19: the result of retrieve is exactly the sub-sequence of the rows of
\* the store response used (first call or fallback call) that are not
\* noise, in the store's order: nothing reordered, duplicated or dropped,
\* and never more hits than the store returned.
C19_ExactSubsequence ==
  (rpc = "done" /\ rOut.kind = "return") =>
    LET kept == KeptPositions(UsedRows)
    IN  /\ Len(rOut.rows) = Cardinality(kept)
        /\ \A k \in DOMAIN rOut.rows : rOut.rows[k] = UsedRows[KthOf(kept, k)]
        /\ Len(rOut.rows) <= Len(UsedRows)
        /\ UsedRows = rData.rows

\* the fallback response began and ended with two different rows that are
\* not noise, the lower similarity first, and both came back in that order
C19_Witness ==
  /\ rpc = "done" /\ rOut.kind = "return"
  /\ Len(rCalls) = 2
  /\ Len(UsedRows) = MaxRows
  /\ UsedRows[1] = Row(2, "Depreciation reduces income.")
  /\ UsedRows[MaxRows] = Row(1, "Depreciation reduces income.")
  /\ rOut.rows = <<UsedRows[1], UsedRows[MaxRows]>>


\* the claim's counts, taken on the content as it is written
AsciiLetterCount(c) == CountChars(c, LowerLetters \cup UpperLetters)
NonAsciiCount(c)    == CountChars(c, NonAscii)

\* isNoisyChunk has returned for a non-empty text without share markers
NoiseRuleApplied ==
  /\ vpc = "done" /\ vOut.op = "isNoisyChunk" /\ vOut.kind = "return"
  /\ value.type = "string" /\ value.text # ""
  /\ ~HasShareMarker(value.text)

\* C18: a non-empty content without share markers is noise if and only if
\* it has fewer than 20 ASCII letters and more than 80 non-ASCII
\* characters; 20 letters or 80 non-ASCII characters are not noise, and
\* upper-case ASCII letters count as letters.
C18_MostlyNonLatinRule ==
  NoiseRuleApplied =>
    (vOut.noisy <=> (AsciiLetterCount(value.text) < MinLetters
                     /\ NonAsciiCount(value.text) > MaxNonLatin))

\* what the filter does ensure: the rule on texts whose lower-casing
\* turns no non-ASCII character into an ASCII letter
MostlyNonLatinRuleWithoutKelvin ==
  (NoiseRuleApplied /\ CountChars(value.text, {KELVIN}) = 0) =>
    (vOut.noisy <=> (AsciiLetterCount(value.text) < MinLetters
                     /\ NonAsciiCount(value.text) > MaxNonLatin))

\* C20: classifyChunk and isNoisyChunk never raise an error, whatever the
\* value: for null, undefined and values that are not text classifyChunk
\* returns type other and isNoisyChunk reports noise.
C20_TotalOnAnyValue ==
  vpc = "done" =>
    /\ vOut.kind = "return"
    /\ value.type # "string" =>
         IF vOut.op = "isNoisyChunk" THEN vOut.noisy
         ELSE vOut.class.chunk_type = "other"

\* what the helpers do ensure: no error on a string, null or undefined
TotalOnTextAndNull ==
  (vpc = "done" /\ value.type \in {"string", "null", "undefined"}) =>
    /\ vOut.kind = "return"
    /\ value.type # "string" =>
         IF vOut.op = "isNoisyChunk" THEN vOut.noisy
         ELSE vOut.class = OtherClass


(***************************************************************************)
(* The classifiers compared (under SpecClassify).  classifyChunk of        *)
(* src/unnamed/part_000 is the text of classifyChunk of src/server.js.     *)
(***************************************************************************)
\* C27: for every content the classifyChunk of the script, of part_000 and
\* of the server return the same (type, question identifier).
C27_ClassifiersAgree ==
  cpc = "done" => cres.script = cres.server

\* what does hold: they agree on absent contents and on contents of fewer
\* than 10 characters once trimmed
ClassifiersAgreeBelowGuard ==
  (cpc = "done" /\ (content = NULL \/ Len(content) < MinContentLen)) =>
    cres.script = cres.server

\* C29: past the guard the question identifier returned by classifyChunk
\* is extractQuestionNo(content), whichever type was decided, in the
\* server, in part_000 and in the script.
C29_QuestionNoIndependentOfType ==
  (cpc = "done" /\ PastGuard(content)) =>
    /\ cres.server.question_no = extractQuestionNo(content)
    /\ cres.script.question_no = extractQuestionNo(content)

\* what does hold: the server's classifyChunk (and part_000's) returns
\* extractQuestionNo(content) with every type
ServerQuestionNoIndependentOfType ==
  (cpc = "done" /\ PastGuard(content)) =>
    cres.server.question_no = extractQuestionNo(content)


(***************************************************************************)
(* Properties of sanitizeText (under SpecSanitize)                         *)
(***************************************************************************)
\* t has no null and no control character
NoControlIn(t) == \A i \in 1..Len(t) : Ch(t, i) \notin ControlChars \cup {NUL}

\* t is normalized: no null or control character, no two spaces in a row,
\* no white space at either end
Normalized(t) ==
  /\ NoControlIn(t)
  /\ \A i \in 1..(Len(t) - 1) : ~(Ch(t, i) = " " /\ Ch(t, i + 1) = " ")
  /\ t # "" => (Ch(t, 1) \notin WhiteSpace /\ Ch(t, Len(t)) \notin WhiteSpace)

PieceHeadLen == Len("SOURCE: d | page:1 | chunk:0\n")
PieceTailLen == Len("\n\n---\n\n")

\* C30: sanitizeText(sanitizeText(s)) = sanitizeText(s); sanitizeText(s) has
\* no null or control character (newline and tab included), no run of two
\* or more spaces and no white space at its ends; the content rendered in
\* a context block and the text sent to the embedding provider, which is
\* at most 8000 characters, have no control character.
C30_SanitizeIdempotentNormal ==
  /\ vpc \in {"once", "twice"} => Normalized(vOut.text)
  /\ vpc = "twice" => vOut.text = sanitizeText(OrEmpty(value))
  /\ (vpc = "done" /\ vOut.op = "embedOne") =>
       (NoControlIn(vOut.text) /\ Len(vOut.text) <= MaxEmbedChars)
  /\ (vpc = "done" /\ vOut.op = "buildContextBlock") =>
       NoControlIn(SubSeq(vOut.text, PieceHeadLen + 1, Len(vOut.text) - PieceTailLen))

\* a text with a null, a newline and a tab at the end was sanitized twice
C30_Witness ==
  /\ vpc = "twice"
  /\ value = JSString("^a\na\t")
  /\ vOut.text = "a a"


(***************************************************************************)
(* Counters of the batch runners (under SpecBatch)                         *)
(***************************************************************************)
ChunkTypes == {"mcq_question", "mcq_answer", "essay", "other"}

\* the records processed so far that the runner in use classifies as t
ProcessedAs(t) ==
  {k \in DOMAIN processed : ClassOf(store0[processed[k]].content).chunk_type = t}

\* C28: after each processed record and at the end of a run the four
\* per-type counts sum to the number of chunks processed so far; in the
\* admin endpoint updated is the number of updates that succeeded, never
\* more than the processed count, and 0 in a dry run.
C28_CountersAddUp ==
  /\ stats.mcq_question + stats.mcq_answer + stats.essay + stats.other = Len(processed)
  /\ \A t \in ChunkTypes : stats[t] = Cardinality(ProcessedAs(t))
  /\ impl = "admin" =>
       /\ stats.updated = Cardinality({j \in DOMAIN writes : writes[j].ok})
       /\ stats.updated <= Len(processed)
       /\ dryRun => stats.updated = 0

\* a live run of the endpoint has ended with three records processed, two
\* types counted, one update rejected and another accepted
C28_Witness ==
  /\ impl = "admin" /\ jpc = "done" /\ ~dryRun
  /\ Len(processed) = MaxChunks
  /\ stats.mcq_question >= 1 /\ stats.other >= 1
  /\ \E j \in DOMAIN writes : ~writes[j].ok
  /\ stats.updated >= 1


(***************************************************************************)
(* Completeness and convergence of the runs (under SpecBatchTwice: live    *)
(* runs, no store fault, a cap the number of chunks does not reach)        *)
(***************************************************************************)
\* the candidates of the runner in use in a store
Candidates(st) == IF impl = "part000" THEN UnsetIds(st) ELSE UnsetOrOtherIds(st)

\* the number of times id was classified in the run
TimesProcessed(id) == Cardinality({k \in DOMAIN processed : processed[k] = id})

\* C23: when a live run of a paginated runner whose cap is at least the
\* number of unclassified chunks stops, every chunk that was unclassified
\* at its start has been fetched and classified exactly once.
C23_LiveRunComplete ==
  (impl \in {"part000", "script"} /\ run = 1 /\ jpc = "done") =>
    \A id \in Candidates(store0) : TimesProcessed(id) = 1

\* what does hold: no chunk is classified twice in a run of part_000, and
\* the first page is complete
P0NoneTwiceFirstPageWhole ==
  (impl = "part000" /\ run = 1 /\ jpc = "done") =>
    /\ \A id \in ChunkIds : TimesProcessed(id) <= 1
    /\ \A k \in 1..SmallerOf(batchSize, Cardinality(UnsetIds(store0))) :
         processed[k] = Ascending(UnsetIds(store0))[k]


\* every chunk whose content classifies to a type other than other has
\* that type stored
Converged ==
  \A id \in ChunkIds :
    ClassOf(store[id].content).chunk_type # "other" =>
      store[id].chunk_type = ClassOf(store[id].content).chunk_type

\* C25: when a runner is invoked live again and again over contents that do
\* not change, the store eventually reaches, and then keeps, a state in
\* which every chunk whose content classifies to a type other than other
\* has that type stored.
C25_RunsConverge == <>[]Converged

\* what does hold: no stored type goes back to unset or from one of the
\* three types to another value
NoTypeOscillates ==
  \A id \in ChunkIds :
    /\ store0[id].chunk_type # NULL => store[id].chunk_type # NULL
    /\ storeRun1[id].chunk_type \in {"mcq_question", "mcq_answer", "essay"} =>
         store[id].chunk_type = storeRun1[id].chunk_type

\* what does hold: repeated runs of part_000 with a cap give a type to
\* every chunk that was unset
P0EveryUnsetTyped ==
  <>[](impl = "part000" => UnsetIds(store) = {})


\* what does hold: the endpoint converges when its limit is at least the
\* number of chunks
AdminConvergesUnderLargeLimit ==
  <>[]((impl = "admin" /\ cap >= MaxChunks) => Converged)


(***************************************************************************)
(* Concurrent runs (under SpecBatchConcurrent)                             *)
(***************************************************************************)
StoredValue(st, id) == <<st[id].chunk_type, st[id].question_no>>
ClassValue(id) ==
  <<ClassOf(store0[id].content).chunk_type, ClassOf(store0[id].content).question_no>>

DecidedTypes == {"mcq_question", "mcq_answer", "essay"}

\* C26: whatever the interleaving of concurrent executions (live or dry)
\* of one runner over contents that do not change, every record's stored
\* (type, question number) is the value it had before the runs or
\* classifyChunk of its content; a record stored with one of the three
\* types is never written with another type; and the runs that fetched
\* the same record write the same value.
C26_ConcurrentRunsAgree ==
  /\ \A id \in ChunkIds :
       /\ store[id].content = store0[id].content
       /\ StoredValue(store, id) \in {StoredValue(store0, id), ClassValue(id)}
       /\ store0[id].chunk_type \in DecidedTypes =>
            \A j \in DOMAIN writes : writes[j].id # id
       /\ store[id].chunk_type \in DecidedTypes =>
            \A j \in DOMAIN writes :
              writes[j].id = id => writes[j].chunk_type = store[id].chunk_type
  /\ \A j \in DOMAIN writes :
       /\ <<writes[j].chunk_type, writes[j].question_no>> = ClassValue(writes[j].id)
       /\ \A k \in DOMAIN writes :
            writes[j].id = writes[k].id =>
              (writes[j].chunk_type = writes[k].chunk_type
               /\ writes[j].question_no = writes[k].question_no)

\* two live runs have ended, both fetched chunk 1 while it was a candidate
\* and both wrote it: the second write found the type already decided
C26_Witness ==
  /\ jpc = "done" /\ parked[1].jpc = "done"
  /\ ~dryRun /\ ~parked[1].dryRun
  /\ 1 \in Range(processed) /\ 1 \in Range(parked[1].processed)
  /\ Cardinality({j \in DOMAIN writes : writes[j].id = 1}) = 2
  /\ store[1].chunk_type = "mcq_question"


(***************************************************************************)
(* Filters of retrieveContext (under SpecRetrieveSql)                      *)
(***************************************************************************)
\* the filter is given: neither absent nor the empty string
Given(f) == f # NULL /\ f # ""

\* row r satisfies the filters of the call
MeetsFilters(r) ==
  /\ Given(rArgs.filterDoc) => r.document_id = rArgs.filterDoc
  /\ Given(rArgs.filterChunkType) => r.chunk_type = rArgs.filterChunkType

\* C24: every hit returned by a call given a document filter or a type
\* filter satisfies the filters given, the compatibility fallback being
\* taken or not.
C24_HitsMeetFilters ==
  (rpc = "done" /\ rOut.kind = "return") =>
    \A i \in DOMAIN rOut.rows : MeetsFilters(rOut.rows[i])

\* what does hold: the hits of the first call meet the filters
FirstCallHitsMeetFilters ==
  (rpc = "done" /\ rOut.kind = "return" /\ Len(rCalls) = 1) =>
    \A i \in DOMAIN rOut.rows : MeetsFilters(rOut.rows[i])


(***************************************************************************)
(* POST /api/search: validation and the order of the upstream calls        *)
(***************************************************************************)
\* the query is missing, empty or not a string
QueryMalformed(b) == b.query.type # "string" \/ b.query.text = ""
\* a filter is given and is not a string
FilterMalformed(v) == v.type \notin {"undefined", "null", "string"}
\* topK or threshold is given and is not a number
NumberMalformed(v) == v.type \notin {"undefined", "null", "number"}

Malformed(b) ==
  \/ QueryMalformed(b)
  \/ FilterMalformed(b.filterDoc)
  \/ FilterMalformed(b.chunkType)
  \/ NumberMalformed(b.topK)
  \/ NumberMalformed(b.threshold)

RejectedBeforeIO ==
  /\ embedCalls = <<>>
  /\ rCalls = <<>>
  /\ qpc = "done" => qResp.status = 400

\* C21: a request whose query is missing, empty or not a string, whose
\* document filter or type filter is not a string, or whose topK or threshold
\* is not a number, is answered with a validation error and no call to the
\* embedding provider or to the vector store is ever made for it.
C21_MalformedRejectedBeforeIO == (qpc # "idle" /\ Malformed(req)) => RejectedBeforeIO

\* what holds: a request whose query is missing, empty or not a string is
\* answered with status 400 and no upstream call is made for it
QueryRejectedBeforeIO == (qpc # "idle" /\ QueryMalformed(req)) => RejectedBeforeIO

\* what holds: a filter that is not a string reaches the store as no filter,
\* and a topK or threshold that is not a number as the default
MalformedOptionsDefaulted ==
  rCalls # <<>> =>
    /\ FilterMalformed(req.chunkType) => rCalls[1].filter_chunk_type = NULL
    /\ FilterMalformed(req.filterDoc) => rCalls[1].filter_document_id = NULL
    /\ NumberMalformed(req.topK) => rCalls[1].match_count = DEFAULT_TOPK
    /\ NumberMalformed(req.threshold) =>
         rCalls[1].match_threshold = DEFAULT_MATCH_THRESHOLD

\* C22: the embedding call has completed, with an embedding, before the
\* first call to the vector store is made; when the embedding call fails it
\* is not made again, the vector store is not queried, and the caller gets
\* the failure (status 500 with the provider's message) and no hits.
C22_EmbedThenStore ==
  qpc # "idle" =>
    /\ Len(embedCalls) <= 1
    /\ rCalls # <<>> => (Len(embedResps) = 1 /\ embedResps[1].ok)
    /\ (embedResps # <<>> /\ ~embedResps[1].ok) =>
         /\ rCalls = <<>>
         /\ rpc = "idle"
         /\ qpc = "done"
         /\ qResp.status = 500
         /\ ~qResp.ok
         /\ qResp.details = embedResps[1].message
         /\ qResp.hits = <<>>

C22_Witness ==
  /\ qpc = "done"
  /\ embedCalls = <<"what is WACC">>
  /\ embedResps = <<EmbedFailure("Connection error.")>>
  /\ qResp = jsonError(500, "search error", "Connection error.")
  /\ rCalls = <<>>

\* the other case of C22: a store call made after the embedding arrived
StoreCalledAfterEmbedding ==
  /\ qpc = "done"
  /\ embedResps = <<Embedded("e1")>>
  /\ Len(rCalls) = 2
  /\ qResp.status = 200
  /\ qResp.hits # <<>>

====
